---- MODULE Spec2Model ----
(***************************************************************************)
(* Hospitality question answering: the Answer Router                       *)
(* (agents/hotel_orchestrator_agent.py), the semantic engine with its      *)
(* adaptive retriever (agents/hotel_rag_agent.py) and the query pipeline   *)
(* with its statement sanitizer (agents/booking_sql_agent.py,              *)
(* agents/super_sql_agent.py).                                             *)
(*                                                                         *)
(* Texts are sequences of characters; a character is a one-character       *)
(* string.  Fixed sentences of the program that are only ever compared as  *)
(* a whole are single elements of a text.                                  *)
(***************************************************************************)
EXTENDS Integers, Sequences, FiniteSets, TLC

VARIABLES
    \* --- statement sanitizer (booking_sql_agent._sanitize_sql) ---
    san_raw,        \* the statement as extracted from the generator output
    san_prev,       \* the text the latest sanitization pass was given
    san_text,       \* the text the latest sanitization pass returned
    san_passes,     \* number of sanitization passes applied to san_raw
    \* --- adaptive retriever (hotel_rag_agent._retrieve_docs_adaptive) ---
    retr_args,      \* the arguments of the call, with the list the index returned
    retr_called,    \* whether the retriever has been called
    retr_out,       \* the pair (docs, dbg) the call returned
    \* --- one request in answer_hotel_query_orchestrator and the engines ---
    pc,             \* where the request is
    caller,         \* the running engine was invoked as primary or as fallback
    debug_mode,     \* HOSPITALITY_DEBUG_UI == 1
    router_resp,    \* what the classifier did: [raised, content]
    debug_info,     \* the dictionary debug_info
    sql_answer,     \* the local sql_answer
    rag_answer,     \* the local rag_answer
    final_answer,   \* the local final_answer
    exc,            \* the message of the exception being propagated
    outcome,        \* running, then returned or raised
    returned,       \* the text returned to the caller
    raw_sql_text,   \* the local raw_sql_text of the query pipeline
    raw_result,     \* the local raw_result of the query pipeline
    db_runs,        \* statements the relational store has run
    events,         \* what happened so far, in order
    \* --- the memoized handles and the executor threads that get them ---
    memo,           \* per module global: its value and the constructions so far
    threads,        \* per executor thread: where it is in a getter
    \* --- the semantic index (hotel_rag_agent._get_vectorstore) ---
    _vectorstore,   \* the module global _vectorstore
    collection,     \* batches of chunks in the collection of the index server
    files_present,  \* the hotel files exist
    force_reindex,  \* RAG_FORCE_REINDEX == 1
    rag_threads,    \* per executor thread: where its request is
    searches,       \* the similarity searches run so far
    initialised,    \* a first-use initialization has finished
    init_failed,    \* a first-use initialization failed behind the assignment
    \* --- one WebSocket connection (main.websocket_endpoint) ---
    available,      \* the flags SUPER_SQL_AVAILABLE, EXERCISE_2/1/0_AVAILABLE
    ws_pc,          \* where the handler is: receive, agents, send or closed
    raw_data,       \* the text frame received last
    user_query,     \* the local user_query
    ws_result,      \* what the chain of agents did for this message
    sent_count,     \* responses sent on the connection
    frames,         \* text frames received on the connection
    \* --- the same question asked twice, the debug toggle switched between ---
    first_run,      \* what the first of the two requests did
    \* --- the hotel metadata loader ---
    hotels_table,   \* rows of the table hotels
    rooms_table,    \* rows of the table rooms
    hotel_list,     \* the records of hotels.json
    applications,   \* calls of upsert_hotels_and_rooms so far
    after_first,    \* the two tables after the first call
    upsert_raised   \* the last call raised

sanVars == <<san_raw, san_prev, san_text, san_passes>>
retrVars == <<retr_args, retr_called, retr_out>>
routerVars == <<pc, caller, debug_mode, router_resp, debug_info, sql_answer,
                rag_answer, final_answer, exc, outcome, returned>>
memoVars == <<memo, threads>>
indexVars == <<_vectorstore, collection, files_present, force_reindex,
               rag_threads, searches, initialised, init_failed>>
wsVars == <<available, ws_pc, raw_data, user_query, ws_result, sent_count, frames>>
upsertVars == <<hotels_table, rooms_table, hotel_list, applications, after_first,
                upsert_raised>>
engineVars == <<raw_sql_text, raw_result, db_runs, memoVars, indexVars, wsVars,
                first_run, upsertVars>>
vars == <<sanVars, retrVars, routerVars, engineVars, events>>

(***************************************************************************)
(* Bounds of the model.                                                    *)
(***************************************************************************)
MaxTokens == 5      \* statements are concatenations of at most this many tokens
MaxPasses == 2      \* sanitization passes applied in a row
MaxCandidates == 3  \* length of the candidate list the semantic index returns
MaxScore == 2       \* distances are 0..MaxScore
MaxDocsParam == 3   \* min_docs and max_docs are -1..MaxDocsParam
MaxAnswerLen == 2   \* length of the texts the text generator returns
MaxThreads == 2     \* executor threads that serve requests at the same time
MaxLabelLen == 4    \* length of the texts the classifier returns
MaxBatches == 2     \* batches in which add_documents sends the chunks
MaxFrames == 2      \* text frames received on one connection
MaxHotels == 2      \* records in hotels.json
MaxApplications == 2 \* calls of upsert_hotels_and_rooms in a row

(***************************************************************************)
(* Characters.                                                             *)
(***************************************************************************)
NL == "\n"

LowerLetters ==
    {"a", "b", "c", "d", "e", "f", "g", "h", "i", "j", "k", "l", "m",
     "n", "o", "p", "q", "r", "s", "t", "u", "v", "w", "x", "y", "z"}

UpperLetters ==
    {"A", "B", "C", "D", "E", "F", "G", "H", "I", "J", "K", "L", "M",
     "N", "O", "P", "Q", "R", "S", "T", "U", "V", "W", "X", "Y", "Z"}

Digits == {"0", "1", "2", "3", "4", "5", "6", "7", "8", "9"}

\* [A-Za-z_]
IsIdentStart(c) == c \in LowerLetters \cup UpperLetters \cup {"_"}

\* [A-Za-z0-9_], which is also \w over the characters used here
IsWordChar(c) == c \in LowerLetters \cup UpperLetters \cup Digits \cup {"_"}

\* \s over the characters used here
IsSpace(c) == c \in {" ", NL}

\* The regular expression assertion \b at the gap before position p of s
\* (p in 1..Len(s)+1): exactly one side of the gap is a word character.
WordBoundary(s, p) ==
    LET before == p > 1 /\ IsWordChar(s[p - 1])
        after  == p <= Len(s) /\ IsWordChar(s[p])
    IN  before # after

\* Last position of the longest run of word characters that starts at
\* position p of s; p - 1 when s[p] is no word character.
RECURSIVE WordRunEnd(_, _)
WordRunEnd(s, p) ==
    IF p <= Len(s) /\ IsWordChar(s[p]) THEN WordRunEnd(s, p + 1) ELSE p - 1

\* The same for white space.
RECURSIVE SpaceRunEnd(_, _)
SpaceRunEnd(s, p) ==
    IF p <= Len(s) /\ IsSpace(s[p]) THEN SpaceRunEnd(s, p + 1) ELSE p - 1

\* _sanitize_sql, first substitution:
\*   re.sub( \b([A-Za-z_][A-Za-z0-9_]*)\s+on\b , \1 occ , sql )
\* AliasMatch(s, p) is the match of the pattern starting at position p:
\* [ok, ident_end, end].  The identifier is greedy and has to be followed by
\* white space, so it is the whole word run starting at p; \s+ is greedy and
\* has to be followed by the letter o, so it is the whole white-space run.
AliasMatch(s, p) ==
    LET ident_end == WordRunEnd(s, p)
        space_end == SpaceRunEnd(s, ident_end + 1)
        ok == /\ p <= Len(s)
              /\ WordBoundary(s, p)
              /\ IsIdentStart(s[p])
              /\ space_end > ident_end
              /\ space_end + 2 <= Len(s)
              /\ s[space_end + 1] = "o"
              /\ s[space_end + 2] = "n"
              /\ WordBoundary(s, space_end + 3)
    IN  [ok |-> ok, ident_end |-> ident_end, end |-> space_end + 2]

\* re.sub scans left to right and replaces non-overlapping matches: after a
\* match the scan resumes behind it, in the original text.
RECURSIVE SubAliasDecl(_, _)
SubAliasDecl(s, p) ==
    IF p > Len(s) THEN << >>
    ELSE LET m == AliasMatch(s, p)
         IN  IF m.ok
             THEN SubSeq(s, p, m.ident_end) \o <<" ", "o", "c", "c">>
                      \o SubAliasDecl(s, m.end + 1)
             ELSE <<s[p]>> \o SubAliasDecl(s, p + 1)

\* _sanitize_sql, second substitution:  re.sub( \bon\. , occ. , sql )
RefMatch(s, p) ==
    /\ p + 2 <= Len(s)
    /\ WordBoundary(s, p)
    /\ s[p] = "o"
    /\ s[p + 1] = "n"
    /\ s[p + 2] = "."

RECURSIVE SubAliasRef(_, _)
SubAliasRef(s, p) ==
    IF p > Len(s) THEN << >>
    ELSE IF RefMatch(s, p)
         THEN <<"o", "c", "c", ".">> \o SubAliasRef(s, p + 3)
         ELSE <<s[p]>> \o SubAliasRef(s, p + 1)

\* def _sanitize_sql(sql)
_sanitize_sql(sql) ==
    IF sql = << >> THEN sql
    ELSE SubAliasRef(SubAliasDecl(sql, 1), 1)

(***************************************************************************)
(* Statements the sanitizer is applied to: concatenations of tokens.       *)
(***************************************************************************)
StatementTokens ==
    { <<"o", "n">>,         \* the lowercase word on
      <<"t">>,              \* an identifier
      <<"c", "o", "n">>,    \* an identifier containing on
      <<" ">>, <<NL>>,      \* white space
      <<".">> }

RECURSIVE Flatten(_)
Flatten(ts) == IF ts = << >> THEN << >> ELSE Head(ts) \o Flatten(Tail(ts))

Statements ==
    { Flatten(ts) : ts \in UNION { [1..k -> StatementTokens] : k \in 0..MaxTokens } }

\* The statement of the specification's scenario.
ScenarioStatement ==
    <<"S", "E", "L", "E", "C", "T", " ", "*", " ", "F", "R", "O", "M", " ",
      "r", "o", "o", "m", "s", " ", "r", " ", "J", "O", "I", "N", " ",
      "o", "c", "c", "u", "p", "i", "e", "d", "_", "n", "i", "g", "h", "t", "s",
      " ", "o", "n", " ", "O", "N", " ", "o", "n", ".", "r", "o", "o", "m", "_",
      "i", "d", " ", "=", " ", "r", ".", "i", "d">>

SanIdle ==
    /\ san_raw = << >>
    /\ san_prev = << >>
    /\ san_text = << >>
    /\ san_passes = 0

NoArgs == [candidates |-> << >>, min_docs |-> 0, max_docs |-> 0,
           abs_threshold |-> 0, rel_mult_q |-> 0]

NoResult == [docs |-> << >>, dbg |-> [mode |-> "not_called"]]

RetrIdle ==
    /\ retr_args = NoArgs
    /\ retr_called = FALSE
    /\ retr_out = NoResult

NoDebugInfo ==
    [route_label |-> "None", primary_agent |-> "None", final_agent |-> "None",
     fallback_used |-> FALSE, notes |-> << >>]

\* The module globals that memoize a handle: _DB and _LLM of
\* booking_sql_agent.py, _vectorstore of hotel_rag_agent.py and _router_chain
\* of hotel_orchestrator_agent.py.
Handles == {"_DB", "_LLM", "_vectorstore", "_router_chain"}

Threads == 1..MaxThreads

\* None
None == 0

IdleThread == [pc |-> "idle", handle |-> "none", obj |-> None]

MemoIdle ==
    /\ memo = [h \in Handles |-> [value |-> None, built |-> 0]]
    /\ threads = [t \in Threads |-> IdleThread]

IdleRequest == [pc |-> "idle", count |-> 0, added |-> 0, answer |-> "none"]

\* hotel_rag_agent.py at import: _vectorstore = None; no request is running.
IndexIdle ==
    /\ _vectorstore = None
    /\ collection = 0
    /\ files_present = TRUE
    /\ force_reindex = FALSE
    /\ rag_threads = [t \in Threads |-> IdleRequest]
    /\ searches = {}
    /\ initialised = FALSE
    /\ init_failed = FALSE

\* The agents of main.py, highest priority first.
Agents == <<"SUPER_SQL", "EXERCISE_2", "EXERCISE_1", "EXERCISE_0">>

NoFrame == [json |-> "none"]

NoResult_ws == [calls |-> << >>, response |-> <<"none">>, raised |-> FALSE]

\* main.py with no connection accepted.
WsIdle ==
    /\ available = [i \in 1..4 |-> FALSE]
    /\ ws_pc = "closed"
    /\ raw_data = NoFrame
    /\ user_query = "none"
    /\ ws_result = NoResult_ws
    /\ sent_count = 0
    /\ frames = 0

\* None, and the SQL NULL psycopg2 sends for it.
NULL == "NULL"

NoTables == [hotels |-> {}, rooms |-> {}]

UpsertIdle ==
    /\ hotels_table = {}
    /\ rooms_table = {}
    /\ hotel_list = << >>
    /\ applications = 0
    /\ after_first = NoTables
    /\ upsert_raised = FALSE

\* No request has been answered yet.
NoRun == [debug_mode |-> "none"]

RouterIdle ==
    /\ pc = "idle"
    /\ caller = "none"
    /\ debug_mode = FALSE
    /\ router_resp = [raised |-> FALSE, content |-> << >>]
    /\ debug_info = NoDebugInfo
    /\ sql_answer = << >>
    /\ rag_answer = << >>
    /\ final_answer = << >>
    /\ exc = ""
    /\ outcome = "running"
    /\ returned = << >>
    /\ raw_sql_text = << >>
    /\ raw_result = ""
    /\ db_runs = 0
    /\ events = << >>
    /\ MemoIdle

InitSan ==
    /\ UpsertIdle
    /\ first_run = NoRun
    /\ WsIdle
    /\ IndexIdle
    /\ san_raw \in Statements \cup {ScenarioStatement}
    /\ san_prev = san_raw
    /\ san_text = san_raw
    /\ san_passes = 0
    /\ RetrIdle
    /\ RouterIdle

\* One application of _sanitize_sql to the current text.
Sanitize ==
    /\ san_passes < MaxPasses
    /\ san_prev' = san_text
    /\ san_text' = _sanitize_sql(san_text)
    /\ san_passes' = san_passes + 1
    /\ UNCHANGED <<san_raw, retrVars, routerVars, engineVars, events>>

NextSan == Sanitize

SpecSan == InitSan /\ [][NextSan]_vars

(***************************************************************************)
(* Adaptive retriever.  A candidate is [doc, score]: doc identifies the     *)
(* passage, score is its distance (lower is better).  Distances are        *)
(* integers; rel_mult is given in quarters (5 stands for 1.25), so the      *)
(* cutoff is kept in quarters too.                                         *)
(***************************************************************************)

\* candidates.sort(key=lambda x: x[1]): a stable sort, ascending by score.
RECURSIVE InsertByScore(_, _)
InsertByScore(sorted, c) ==
    IF sorted = << >> THEN <<c>>
    ELSE IF Head(sorted).score <= c.score
         THEN <<Head(sorted)>> \o InsertByScore(Tail(sorted), c)
         ELSE <<c>> \o sorted

\* The variant of SortByScore that leaves the list in the order of the index.
SortByScore_Unsorted(cands) == cands

RECURSIVE SortByScore(_)
SortByScore(cands) ==
    IF cands = << >> THEN << >>
    ELSE InsertByScore(SortByScore(SubSeq(cands, 1, Len(cands) - 1)),
                       cands[Len(cands)])

Min(a, b) == IF a <= b THEN a ELSE b

\* cutoff = min(abs_threshold, best * rel_mult), in quarters
Cutoff(best, abs_threshold, rel_mult_q) == Min(4 * abs_threshold, best * rel_mult_q)

\* if idx <= min_docs
WithinMinDocs(idx, min_docs) == idx <= min_docs

MaxDocsReached_OffByOne(chosen, max_docs) == Len(chosen) > max_docs

\* if len(chosen) >= max_docs
MaxDocsReached(chosen, max_docs) == Len(chosen) >= max_docs

\* The variant of WithinCutoff that leaves out a score equal to the cutoff.
WithinCutoff_Strict(score, cutoff_q) == 4 * score < cutoff_q

\* if score <= cutoff
WithinCutoff(score, cutoff_q) == 4 * score <= cutoff_q

\* A row of debug_candidates.
DebugRow(idx, c, chosen, reason) ==
    [rank |-> idx, score |-> c.score, chosen |-> chosen, reason |-> reason]

\* The rows of the candidates from idx on that the loop never reaches: they
\* keep the values they were created with.
UnvisitedRows(cands, idx) ==
    [i \in 1..(Len(cands) - idx + 1) |-> DebugRow(idx + i - 1, cands[idx + i - 1], FALSE, "")]

\* The variant of Scan that tests max_docs before min_docs.
RECURSIVE Scan_MaxFirst(_, _, _, _, _, _, _)
Scan_MaxFirst(cands, idx, chosen, rows, min_docs, max_docs, cutoff_q) ==
    IF idx > Len(cands) THEN [chosen |-> chosen, rows |-> rows]
    ELSE LET c == cands[idx] IN
         IF MaxDocsReached(chosen, max_docs)
         THEN [chosen |-> chosen,
               rows   |-> rows \o <<DebugRow(idx, c, FALSE, "max_docs_reached")>>
                               \o UnvisitedRows(cands, idx + 1)]
         ELSE IF WithinMinDocs(idx, min_docs) \/ WithinCutoff(c.score, cutoff_q)
         THEN Scan_MaxFirst(cands, idx + 1, Append(chosen, c),
                   Append(rows, DebugRow(idx, c, TRUE,
                       IF WithinMinDocs(idx, min_docs) THEN "within_min_docs"
                       ELSE "score<=cutoff")),
                   min_docs, max_docs, cutoff_q)
         ELSE [chosen |-> chosen,
               rows   |-> rows \o <<DebugRow(idx, c, FALSE, "score>cutoff_break")>>
                               \o UnvisitedRows(cands, idx + 1)]

\* for idx, (doc, score, debug_entry) in enumerate(debug_candidates, start=1):
\* the loop from idx on, with the passages chosen and the rows written so far.
RECURSIVE Scan(_, _, _, _, _, _, _)
Scan(cands, idx, chosen, rows, min_docs, max_docs, cutoff_q) ==
    IF idx > Len(cands) THEN [chosen |-> chosen, rows |-> rows]
    ELSE LET c == cands[idx] IN
         IF WithinMinDocs(idx, min_docs)
         THEN Scan(cands, idx + 1, Append(chosen, c),
                   Append(rows, DebugRow(idx, c, TRUE, "within_min_docs")),
                   min_docs, max_docs, cutoff_q)
         ELSE IF MaxDocsReached(chosen, max_docs)
         THEN [chosen |-> chosen,
               rows   |-> rows \o <<DebugRow(idx, c, FALSE, "max_docs_reached")>>
                               \o UnvisitedRows(cands, idx + 1)]
         ELSE IF WithinCutoff(c.score, cutoff_q)
         THEN Scan(cands, idx + 1, Append(chosen, c),
                   Append(rows, DebugRow(idx, c, TRUE, "score<=cutoff")),
                   min_docs, max_docs, cutoff_q)
         ELSE [chosen |-> chosen,
               rows   |-> rows \o <<DebugRow(idx, c, FALSE, "score>cutoff_break")>>
                               \o UnvisitedRows(cands, idx + 1)]

\* def _retrieve_docs_adaptive(vs, question, *, min_docs, max_docs,
\*                             candidate_pool, abs_threshold, rel_mult)
\* with candidates the list vs.similarity_search_with_score returned.
_retrieve_docs_adaptive(candidates, min_docs, max_docs, abs_threshold, rel_mult_q) ==
    IF candidates = << >>
    THEN [docs |-> << >>, dbg |-> [mode |-> "no_candidates", candidates |-> 0]]
    ELSE LET sorted   == SortByScore(candidates)
             best     == sorted[1].score
             cutoff_q == Cutoff(best, abs_threshold, rel_mult_q)
             r        == Scan(sorted, 1, << >>, << >>, min_docs, max_docs, cutoff_q)
         IN  [docs |-> r.chosen,
              dbg  |-> [mode |-> "adaptive",
                        candidates |-> Len(candidates),
                        min_docs |-> min_docs,
                        max_docs |-> max_docs,
                        best_distance |-> best,
                        cutoff_q |-> cutoff_q,
                        returned |-> Len(r.chosen),
                        debug_candidates |-> r.rows]]

\* Candidate lists the semantic index may return, in any order.
CandidateLists ==
    UNION { { [i \in 1..k |-> [doc |-> i, score |-> f[i]]] : f \in [1..k -> 0..MaxScore] }
            : k \in 0..MaxCandidates }

DocsParams == -1..MaxDocsParam

InitRetr ==
    /\ UpsertIdle
    /\ first_run = NoRun
    /\ WsIdle
    /\ IndexIdle
    /\ retr_args \in [candidates : CandidateLists,
                      min_docs : DocsParams,
                      max_docs : DocsParams,
                      abs_threshold : {1, MaxScore},
                      rel_mult_q : {4, 5, 8}]
    /\ retr_called = FALSE
    /\ retr_out = NoResult
    /\ SanIdle
    /\ RouterIdle

\* One call of _retrieve_docs_adaptive.
Retrieve ==
    /\ ~retr_called
    /\ retr_called' = TRUE
    /\ retr_out' = _retrieve_docs_adaptive(retr_args.candidates, retr_args.min_docs,
                       retr_args.max_docs, retr_args.abs_threshold, retr_args.rel_mult_q)
    /\ UNCHANGED <<retr_args, sanVars, routerVars, engineVars, events>>

NextRetr == Retrieve

SpecRetr == InitRetr /\ [][NextRetr]_vars

(***************************************************************************)
(* Texts of the router and of the engines.                                 *)
(***************************************************************************)

\* The glyph U+274C that opens the error answers of the query pipeline and
\* of the router, and that _looks_like_sql_error tests for.
ErrorMarker == "U+274C"

\* The three characters U+201A U+00F9 U+00E5 that open the error answers of
\* the semantic engine in hotel_rag_agent.py.
RagErrorMarker == <<"U+201A", "U+00F9", "U+00E5">>

\* The prefix _looks_like_rag_no_info tests for.
NoInfoSentence == "I couldn't find relevant information in the knowledge base"

\* The opening and closing fence of a code block, three backquotes.
Fence == "<fence>"

\* One backquote.
Backquote == "<backquote>"

\* str.lstrip(), str.rstrip(), str.strip()
RECURSIVE LStrip(_)
LStrip(text) ==
    IF text # << >> /\ IsSpace(Head(text)) THEN LStrip(Tail(text)) ELSE text

RECURSIVE RStrip(_)
RStrip(text) ==
    IF text # << >> /\ IsSpace(text[Len(text)])
    THEN RStrip(SubSeq(text, 1, Len(text) - 1))
    ELSE text

Strip(text) == RStrip(LStrip(text))

\* str.startswith(prefix)
StartsWith(text, prefix) ==
    /\ Len(text) >= Len(prefix)
    /\ SubSeq(text, 1, Len(prefix)) = prefix

\* The letters, each with its upper case.
LetterPairs ==
    { <<"a", "A">>, <<"b", "B">>, <<"c", "C">>, <<"d", "D">>, <<"e", "E">>,
      <<"f", "F">>, <<"g", "G">>, <<"h", "H">>, <<"i", "I">>, <<"j", "J">>,
      <<"k", "K">>, <<"l", "L">>, <<"m", "M">>, <<"n", "N">>, <<"o", "O">>,
      <<"p", "P">>, <<"q", "Q">>, <<"r", "R">>, <<"s", "S">>, <<"t", "T">>,
      <<"u", "U">>, <<"v", "V">>, <<"w", "W">>, <<"x", "X">>, <<"y", "Y">>,
      <<"z", "Z">> }

\* str.upper(), character by character.
UpperChar(c) ==
    IF c \in LowerLetters
    THEN (CHOOSE pr \in LetterPairs : pr[1] = c)[2]
    ELSE c

Upper(text) == [i \in 1..Len(text) |-> UpperChar(text[i])]

\* The texts the text generator may return as an answer.
AnswerChars == {" ", ErrorMarker, NoInfoSentence, "a"}

GeneratorTexts == UNION { [1..k -> AnswerChars] : k \in 0..MaxAnswerLen }

\* Messages of the exceptions the collaborators raise.
ErrorMessages == {"connection refused", "timeout"}

\* The message of the FileNotFoundError that _load_documents raises.
FileNotFound == "Missing hotel files"

\* The answers of answer_booking_question_sql.
SqlGenerationEmptyAnswer ==
    <<ErrorMarker, " ", "I couldn't generate a valid SQL query for that question.",
      NL, NL, "Please try rephrasing your question.">>

SqlExecutionErrorAnswer(e) ==
    <<ErrorMarker, " ",
      "There was an error executing the SQL query generated for your question.",
      NL, NL, "Error: ", Backquote, e, Backquote, NL, NL,
      "You might want to check date ranges, hotel names or filters.">>

SqlUnexpectedErrorAnswer(e) ==
    <<ErrorMarker, " ",
      "Unexpected error while processing your question with the SQL agent: ", e>>

\* The answers of answer_hotel_question_rag.
RagNoInfoAnswer == <<NoInfoSentence, " for that question.">>

RagMissingFilesAnswer ==
    RagErrorMarker \o <<" ", "Missing hotel data files.", NL, NL,
                        "Generate them first:", NL>>

RagErrorAnswer(e) ==
    RagErrorMarker \o <<" ", "Error while processing the question: ", e>>

\* The answer of the router's top-level handler.
OrchestratorErrorAnswer(e) ==
    <<ErrorMarker, " ",
      "Unexpected error while processing your question in the orchestrator.",
      NL, NL, "Error: ", Backquote, e, Backquote>>

(***************************************************************************)
(* The router's detectors and classifier.                                  *)
(***************************************************************************)

\* The variant of _looks_like_sql_error that looks for the error marker
\* anywhere in the text.
_looks_like_sql_error_Anywhere(text) ==
    IF text = << >> THEN TRUE
    ELSE \E i \in 1..Len(text) : text[i] = ErrorMarker

\* def _looks_like_sql_error(text)
_looks_like_sql_error(text) ==
    IF text = << >> THEN TRUE
    ELSE StartsWith(LStrip(text), <<ErrorMarker>>)

\* The variant of _looks_like_rag_no_info that does not trim the text.
_looks_like_rag_no_info_Untrimmed(text) ==
    IF text = << >> THEN TRUE
    ELSE StartsWith(text, <<NoInfoSentence>>)

\* def _looks_like_rag_no_info(text)
_looks_like_rag_no_info(text) ==
    IF text = << >> THEN TRUE
    ELSE StartsWith(Strip(text), <<NoInfoSentence>>)

\* What the classifier chain may answer with.
LabelChars == {" ", NL, "S", "s", "Q", "q", "L", "l", "."}

ClassifierTexts ==
    UNION { [1..k -> LabelChars] : k \in 0..MaxLabelLen }
        \cup { <<"R", "A", "G">>, <<"r", "a", "g", " ">>, <<NL, "R", "a", "g">> }

ClassifierResponses ==
    { [raised |-> FALSE, content |-> t] : t \in ClassifierTexts }
        \cup { [raised |-> TRUE, content |-> << >>] }

\* The two labels, as texts and as the values the router works with.
LabelText(label) ==
    IF label = "SQL" THEN <<"S", "Q", "L">> ELSE <<"R", "A", "G">>

\* The variant of _route_question whose except clause answers SQL.
_route_question_DefaultSql(resp) ==
    IF resp.raised THEN "SQL"
    ELSE LET label == Upper(Strip(resp.content))
         IN  IF label \notin { LabelText("RAG"), LabelText("SQL") } THEN "RAG"
             ELSE IF label = LabelText("SQL") THEN "SQL" ELSE "RAG"

\* def _route_question(question), given what chain.invoke did
_route_question(resp) ==
    IF resp.raised THEN "RAG"
    ELSE LET label == Upper(Strip(resp.content))
         IN  IF label \notin { LabelText("RAG"), LabelText("SQL") } THEN "RAG"
             ELSE IF label = LabelText("SQL") THEN "SQL" ELSE "RAG"

(***************************************************************************)
(* _route_question on its own: the classifier has answered or raised, and  *)
(* the label is computed from what it did.                                 *)
(***************************************************************************)
InitRoute ==
    /\ UpsertIdle
    /\ first_run = NoRun
    /\ WsIdle
    /\ IndexIdle
    /\ pc = "route"
    /\ router_resp \in ClassifierResponses
    /\ caller = "none"
    /\ debug_mode = FALSE
    /\ debug_info = NoDebugInfo
    /\ sql_answer = << >>
    /\ rag_answer = << >>
    /\ final_answer = << >>
    /\ exc = ""
    /\ outcome = "running"
    /\ returned = << >>
    /\ raw_sql_text = << >>
    /\ raw_result = ""
    /\ db_runs = 0
    /\ events = << >>
    /\ MemoIdle
    /\ SanIdle
    /\ RetrIdle

\* agent_type = _route_question(question); debug_info[route_label] = agent_type
Classify ==
    /\ pc = "route"
    /\ debug_info' = [debug_info EXCEPT !.route_label = _route_question(router_resp)]
    /\ pc' = "routed"
    /\ UNCHANGED <<caller, debug_mode, router_resp, sql_answer, rag_answer,
                   final_answer, exc, outcome, returned, engineVars, sanVars,
                   retrVars, events>>

NextRoute == Classify

SpecRoute == InitRoute /\ [][NextRoute]_vars

(***************************************************************************)
(* The query pipeline's extraction of the statement.                       *)
(***************************************************************************)

\* Position of the first fence of text at or after p, 0 when there is none.
RECURSIVE FindFence(_, _)
FindFence(text, p) ==
    IF p > Len(text) THEN 0
    ELSE IF text[p] = Fence THEN p
    ELSE FindFence(text, p + 1)

\* (?:sql)? with re.IGNORECASE at position p: the position behind the tag.
SkipLanguageTag(text, p) ==
    IF /\ p + 2 <= Len(text)
       /\ text[p] \in {"s", "S"}
       /\ text[p + 1] \in {"q", "Q"}
       /\ text[p + 2] \in {"l", "L"}
    THEN p + 3
    ELSE p

\* def _extract_sql(text): the first fence that has a closing fence behind it
\* opens the block; the tag and the white space behind it are skipped and
\* the block runs to the next fence.
_extract_sql(text) ==
    IF text = << >> THEN << >>
    ELSE LET open  == FindFence(text, 1)
             close == IF open = 0 THEN 0 ELSE FindFence(text, open + 1)
         IN  IF close # 0
             THEN LET from == SpaceRunEnd(text, SkipLanguageTag(text, open + 1)) + 1
                  IN  Strip(SubSeq(text, from, close - 1))
             ELSE Strip(text)

(***************************************************************************)
(* One request: answer_hotel_query_orchestrator with the two engines it    *)
(* calls.  Every call of a collaborator (classifier, text generator,       *)
(* relational store, semantic index) is one step, which returns or raises. *)
(***************************************************************************)

\* Defaults of RAG_MIN_DOCS, RAG_MAX_DOCS, RAG_ABS_THRESHOLD and RAG_REL_MULT
\* in answer_hotel_question_rag (the multiplier in quarters).
RagMinDocs == 5
RagMaxDocs == 50
RagAbsThreshold == 2
RagRelMultQ == 4 * 2

\* What the text generator may return in the generate phase.
GeneratedStatements ==
    { << >>,
      <<NL>>,
      <<"t", " ", "o", "n">>,
      <<Fence, "s", "q", "l", NL, "t", " ", "o", "n", ".", "t", NL, Fence>>,
      <<Fence, " ", Fence>>,
      <<"a", NL, Fence, "S", "q", "l", " ", "t", Fence, "a">>,
      <<Fence, "p", "g", NL, "t", NL, Fence>>,
      <<Fence, "s", "q", "l", "x", NL, "t", NL, Fence>>,
      <<Fence, "s", "q", "l", NL, "t">> }

\* What the relational store may return.
QueryResults == {"[(42,)]"}

\* What the semantic index may return to the engine.
IndexResults == { c \in CandidateLists : Len(c) <= 1 }

Init ==
    /\ UpsertIdle
    /\ first_run = NoRun
    /\ WsIdle
    /\ IndexIdle
    /\ pc = "start"
    /\ caller = "none"
    /\ debug_mode \in BOOLEAN
    /\ router_resp = [raised |-> FALSE, content |-> << >>]
    /\ debug_info = NoDebugInfo
    /\ sql_answer = << >>
    /\ rag_answer = << >>
    /\ final_answer = << >>
    /\ exc = ""
    /\ outcome = "running"
    /\ returned = << >>
    /\ raw_sql_text = << >>
    /\ raw_result = ""
    /\ db_runs = 0
    /\ events = << >>
    /\ SanIdle
    /\ RetrIdle
    /\ MemoIdle

\* agent_type = _route_question(question), and the call of the primary engine.
\* What the classifier answered is local to _route_question.
RouteQuestion ==
    /\ pc = "start"
    /\ \E resp \in ClassifierResponses :
           LET agent_type == _route_question(resp)
           IN  /\ debug_info' = [debug_info EXCEPT !.route_label = agent_type,
                                                   !.primary_agent = agent_type]
               /\ pc' = IF agent_type = "SQL" THEN "sql_get_db"
                        ELSE "rag_get_vectorstore"
               /\ events' = events \o << <<"classified", agent_type>>,
                                         <<"call", agent_type>> >>
    /\ caller' = "primary"
    /\ UNCHANGED <<debug_mode, router_resp, sql_answer, rag_answer, final_answer,
                   exc, outcome, returned, engineVars, sanVars, retrVars>>

(***************************************************************************)
(* answer_booking_question_sql                                             *)
(***************************************************************************)

\* return <answer> in answer_booking_question_sql, behind the call of a
\* collaborator that ended with result: ok, or the message of its exception.
SqlReturns(call, result, answer) ==
    /\ sql_answer' = answer
    /\ pc' = "sql_returned"
    /\ events' = events \o << <<call, result>>, <<"return", "SQL">> >>

\* db = _get_db()
SqlGetDb ==
    /\ pc = "sql_get_db"
    /\ \/ /\ pc' = "sql_generate"
          /\ events' = Append(events, <<"_get_db", "ok">>)
          /\ UNCHANGED sql_answer
       \/ \E e \in ErrorMessages :
              SqlReturns("_get_db", e, SqlUnexpectedErrorAnswer(e))
    /\ UNCHANGED <<caller, debug_mode, router_resp, debug_info, rag_answer,
                   final_answer, exc, outcome, returned, engineVars, sanVars,
                   retrVars>>

\* Step 1: sql_chain.invoke, _extract_sql, the test for an empty statement
\* and _sanitize_sql.
SqlGenerate ==
    /\ pc = "sql_generate"
    /\ \/ \E text \in GeneratedStatements :
              LET sql_query == _extract_sql(text)
              IN  /\ raw_sql_text' = text
                  /\ IF sql_query = << >>
                     THEN /\ SqlReturns("sql_chain.invoke", "ok", SqlGenerationEmptyAnswer)
                          /\ UNCHANGED sanVars
                     ELSE /\ san_raw' = sql_query
                          /\ san_prev' = sql_query
                          /\ san_text' = _sanitize_sql(sql_query)
                          /\ san_passes' = 1
                          /\ pc' = "sql_execute"
                          /\ events' = Append(events, <<"sql_chain.invoke", "ok">>)
                          /\ UNCHANGED sql_answer
       \/ /\ \E e \in ErrorMessages :
                 SqlReturns("sql_chain.invoke", e, SqlUnexpectedErrorAnswer(e))
          /\ UNCHANGED <<sanVars, raw_sql_text>>
    /\ UNCHANGED <<caller, debug_mode, router_resp, debug_info, rag_answer,
                   final_answer, exc, outcome, returned, raw_result, db_runs,
                   memoVars, indexVars, wsVars, first_run,
                   upsertVars, retrVars>>

\* The variant of SqlExecute that goes on to the explain phase when the
\* store raised.
SqlExecute_Explains ==
    /\ pc = "sql_execute"
    /\ db_runs' = db_runs + 1
    /\ \/ /\ raw_result' \in QueryResults
          /\ events' = Append(events, <<"db.run", "ok">>)
       \/ /\ \E e \in ErrorMessages : events' = Append(events, <<"db.run", e>>)
          /\ UNCHANGED raw_result
    /\ pc' = "sql_explain"
    /\ UNCHANGED <<caller, debug_mode, router_resp, debug_info, sql_answer,
                   rag_answer, final_answer, exc, outcome, returned, sanVars,
                   retrVars, raw_sql_text, memoVars, indexVars,
                   wsVars, first_run, upsertVars>>

\* Step 2: raw_result = db.run(sanitized_sql), and its except clause.
SqlExecute ==
    /\ pc = "sql_execute"
    /\ db_runs' = db_runs + 1
    /\ \/ /\ raw_result' \in QueryResults
          /\ pc' = "sql_explain"
          /\ events' = Append(events, <<"db.run", "ok">>)
          /\ UNCHANGED sql_answer
       \/ /\ \E e \in ErrorMessages :
                 SqlReturns("db.run", e, SqlExecutionErrorAnswer(e))
          /\ UNCHANGED raw_result
    /\ UNCHANGED <<caller, debug_mode, router_resp, debug_info, rag_answer,
                   final_answer, exc, outcome, returned, sanVars, retrVars,
                   raw_sql_text, memoVars, indexVars, wsVars,
                   first_run, upsertVars>>

\* The variant of SqlExplain outside the try: the exception of the text
\* generator leaves the pipeline.
SqlExplain_Raises ==
    /\ pc = "sql_explain"
    /\ \/ /\ \E text \in GeneratorTexts : SqlReturns("answer_chain.invoke", "ok", text)
          /\ UNCHANGED exc
       \/ \E e \in ErrorMessages :
              /\ exc' = e
              /\ pc' = "sql_raised"
              /\ events' = events \o << <<"answer_chain.invoke", e>>, <<"raise", "SQL">> >>
              /\ UNCHANGED sql_answer
    /\ UNCHANGED <<caller, debug_mode, router_resp, debug_info, rag_answer,
                   final_answer, outcome, returned, engineVars, sanVars,
                   retrVars>>

\* Step 3: answer_chain.invoke and return final_answer.
SqlExplain ==
    /\ pc = "sql_explain"
    /\ \/ \E text \in GeneratorTexts : SqlReturns("answer_chain.invoke", "ok", text)
       \/ \E e \in ErrorMessages :
              SqlReturns("answer_chain.invoke", e, SqlUnexpectedErrorAnswer(e))
    /\ UNCHANGED <<caller, debug_mode, router_resp, debug_info, rag_answer,
                   final_answer, exc, outcome, returned, engineVars, sanVars,
                   retrVars>>

(***************************************************************************)
(* answer_hotel_question_rag                                               *)
(***************************************************************************)

\* return <answer> in answer_hotel_question_rag, behind the call of a
\* collaborator that ended with result: ok, or the message of its exception.
RagReturns(call, result, answer) ==
    /\ rag_answer' = answer
    /\ pc' = "rag_returned"
    /\ events' = events \o << <<call, result>>, <<"return", "RAG">> >>

\* vs = _get_vectorstore(), which may raise FileNotFoundError (from
\* _load_documents) or another exception.
RagGetVectorstore ==
    /\ pc = "rag_get_vectorstore"
    /\ \/ /\ pc' = "rag_retrieve"
          /\ events' = Append(events, <<"_get_vectorstore", "ok">>)
          /\ UNCHANGED rag_answer
       \/ RagReturns("_get_vectorstore", FileNotFound, RagMissingFilesAnswer)
       \/ \E e \in ErrorMessages :
              RagReturns("_get_vectorstore", e, RagErrorAnswer(e))
    /\ UNCHANGED <<caller, debug_mode, router_resp, debug_info, sql_answer,
                   final_answer, exc, outcome, returned, engineVars, sanVars,
                   retrVars>>

\* The variant of RagRetrieve without the test  if not docs: the text
\* generator is asked whatever was retrieved.
RagRetrieve_NoEmptyTest ==
    /\ pc = "rag_retrieve"
    /\ \/ \E candidates \in IndexResults :
              /\ retr_args' = [candidates |-> candidates,
                               min_docs |-> RagMinDocs,
                               max_docs |-> RagMaxDocs,
                               abs_threshold |-> RagAbsThreshold,
                               rel_mult_q |-> RagRelMultQ]
              /\ retr_called' = TRUE
              /\ retr_out' = _retrieve_docs_adaptive(candidates, RagMinDocs, RagMaxDocs,
                                                     RagAbsThreshold, RagRelMultQ)
              /\ pc' = "rag_generate"
              /\ events' = Append(events, <<"similarity_search", "ok">>)
              /\ UNCHANGED rag_answer
       \/ /\ \E e \in ErrorMessages :
                 RagReturns("similarity_search", e, RagErrorAnswer(e))
          /\ UNCHANGED retrVars
    /\ UNCHANGED <<caller, debug_mode, router_resp, debug_info, sql_answer,
                   final_answer, exc, outcome, returned, engineVars, sanVars>>

\* docs, dbg = _retrieve_docs_adaptive(...) and the test  if not docs.
RagRetrieve ==
    /\ pc = "rag_retrieve"
    /\ \/ \E candidates \in IndexResults :
              LET r == _retrieve_docs_adaptive(candidates, RagMinDocs, RagMaxDocs,
                                               RagAbsThreshold, RagRelMultQ)
              IN  /\ retr_args' = [candidates |-> candidates,
                                   min_docs |-> RagMinDocs,
                                   max_docs |-> RagMaxDocs,
                                   abs_threshold |-> RagAbsThreshold,
                                   rel_mult_q |-> RagRelMultQ]
                  /\ retr_called' = TRUE
                  /\ retr_out' = r
                  /\ IF r.docs = << >>
                     THEN RagReturns("similarity_search", "ok", RagNoInfoAnswer)
                     ELSE /\ pc' = "rag_generate"
                          /\ events' = Append(events, <<"similarity_search", "ok">>)
                          /\ UNCHANGED rag_answer
       \/ /\ \E e \in ErrorMessages :
                 RagReturns("similarity_search", e, RagErrorAnswer(e))
          /\ UNCHANGED retrVars
    /\ UNCHANGED <<caller, debug_mode, router_resp, debug_info, sql_answer,
                   final_answer, exc, outcome, returned, engineVars, sanVars>>

\* response = chain.invoke(...) and return its content.
RagGenerate ==
    /\ pc = "rag_generate"
    /\ \/ \E text \in GeneratorTexts : RagReturns("chain.invoke", "ok", text)
       \/ \E e \in ErrorMessages :
              RagReturns("chain.invoke", e, RagErrorAnswer(e))
    /\ UNCHANGED <<caller, debug_mode, router_resp, debug_info, sql_answer,
                   final_answer, exc, outcome, returned, engineVars, sanVars,
                   retrVars>>

\* The call of an engine raises.  Both engines catch Exception around their
\* whole body, so the exceptions of their collaborators never get here: they
\* are the raising branches of the actions above.  What leaves an engine is
\* an exception raised while one of its except clauses runs.  The except
\* clauses of the router are written for this case.
SqlRunning == pc \in {"sql_get_db", "sql_generate", "sql_execute", "sql_explain"}
RagRunning == pc \in {"rag_get_vectorstore", "rag_retrieve", "rag_generate"}

EngineRaises ==
    /\ SqlRunning \/ RagRunning
    /\ \E e \in ErrorMessages : exc' = e
    /\ pc' = IF SqlRunning THEN "sql_raised" ELSE "rag_raised"
    /\ events' = Append(events, <<"raise", IF SqlRunning THEN "SQL" ELSE "RAG">>)
    /\ UNCHANGED <<caller, debug_mode, router_resp, debug_info, sql_answer,
                   rag_answer, final_answer, outcome, returned, engineVars,
                   sanVars, retrVars>>

(***************************************************************************)
(* answer_hotel_query_orchestrator, behind the call of an engine.          *)
(***************************************************************************)
Note(text, e) == <<text, e>>

\* The variant of SqlPrimaryReturned that keeps the answer of the query
\* pipeline, error or not, when the debug toggle is on.
SqlPrimaryReturned_DebugKeepsSql ==
    /\ pc = "sql_returned"
    /\ caller = "primary"
    /\ IF _looks_like_sql_error(sql_answer) /\ ~debug_mode
       THEN /\ debug_info' = [debug_info EXCEPT
                   !.fallback_used = TRUE,
                   !.notes = Append(@, <<"SQL answer looked like an error, fallback to RAG">>)]
            /\ pc' = "rag_get_vectorstore"
            /\ caller' = "fallback"
            /\ events' = events \o << <<"fallback", "RAG">>, <<"call", "RAG">> >>
            /\ UNCHANGED final_answer
       ELSE /\ debug_info' = [debug_info EXCEPT !.final_agent = "SQL"]
            /\ final_answer' = sql_answer
            /\ pc' = "respond"
            /\ events' = Append(events, <<"accept", "SQL">>)
            /\ UNCHANGED caller
    /\ UNCHANGED <<debug_mode, router_resp, sql_answer, rag_answer, exc, outcome,
                   returned, engineVars, sanVars, retrVars>>

\* sql_answer = answer_booking_question_sql(question) returned, SQL primary:
\* if _looks_like_sql_error(sql_answer) ... else ...
SqlPrimaryReturned ==
    /\ pc = "sql_returned"
    /\ caller = "primary"
    /\ IF _looks_like_sql_error(sql_answer)
       THEN /\ debug_info' = [debug_info EXCEPT
                   !.fallback_used = TRUE,
                   !.notes = Append(@, <<"SQL answer looked like an error, fallback to RAG">>)]
            /\ pc' = "rag_get_vectorstore"
            /\ caller' = "fallback"
            /\ events' = events \o << <<"fallback", "RAG">>, <<"call", "RAG">> >>
            /\ UNCHANGED final_answer
       ELSE /\ debug_info' = [debug_info EXCEPT !.final_agent = "SQL"]
            /\ final_answer' = sql_answer
            /\ pc' = "respond"
            /\ events' = Append(events, <<"accept", "SQL">>)
            /\ UNCHANGED caller
    /\ UNCHANGED <<debug_mode, router_resp, sql_answer, rag_answer, exc, outcome,
                   returned, engineVars, sanVars, retrVars>>

\* The variant of RagFallbackReturned that leaves the query pipeline as the
\* final agent.
RagFallbackReturned_WrongAgent ==
    /\ pc = "rag_returned"
    /\ caller = "fallback"
    /\ debug_info' = [debug_info EXCEPT !.final_agent = "SQL"]
    /\ final_answer' = rag_answer
    /\ pc' = "respond"
    /\ events' = Append(events, <<"accept", "RAG">>)
    /\ UNCHANGED <<caller, debug_mode, router_resp, sql_answer, rag_answer, exc,
                   outcome, returned, engineVars, sanVars, retrVars>>

\* The fallback call rag_answer = answer_hotel_question_rag(question) returned.
RagFallbackReturned ==
    /\ pc = "rag_returned"
    /\ caller = "fallback"
    /\ debug_info' = [debug_info EXCEPT !.final_agent = "RAG"]
    /\ final_answer' = rag_answer
    /\ pc' = "respond"
    /\ events' = Append(events, <<"accept", "RAG">>)
    /\ UNCHANGED <<caller, debug_mode, router_resp, sql_answer, rag_answer, exc,
                   outcome, returned, engineVars, sanVars, retrVars>>

\* The variant of RagFallbackRaised that answers with the message of the
\* exception instead of the primary answer.
RagFallbackRaised_DropsPrimaryAnswer ==
    /\ pc = "rag_raised"
    /\ caller = "fallback"
    /\ debug_info' = [debug_info EXCEPT
           !.notes = Append(@, Note("RAG fallback failed: ", exc)),
           !.final_agent = "SQL (error)"]
    /\ final_answer' = OrchestratorErrorAnswer(exc)
    /\ pc' = "respond"
    /\ events' = Append(events, <<"keep", "SQL">>)
    /\ UNCHANGED <<caller, debug_mode, router_resp, sql_answer, rag_answer, exc,
                   outcome, returned, engineVars, sanVars, retrVars>>

\* except Exception, around the fallback call of the semantic engine.
RagFallbackRaised ==
    /\ pc = "rag_raised"
    /\ caller = "fallback"
    /\ debug_info' = [debug_info EXCEPT
           !.notes = Append(@, Note("RAG fallback failed: ", exc)),
           !.final_agent = "SQL (error)"]
    /\ final_answer' = sql_answer
    /\ pc' = "respond"
    /\ events' = Append(events, <<"keep", "SQL">>)
    /\ UNCHANGED <<caller, debug_mode, router_resp, sql_answer, rag_answer, exc,
                   outcome, returned, engineVars, sanVars, retrVars>>

\* rag_answer = answer_hotel_question_rag(question) returned, RAG primary:
\* if _looks_like_rag_no_info(rag_answer) ... else ...
RagPrimaryReturned ==
    /\ pc = "rag_returned"
    /\ caller = "primary"
    /\ IF _looks_like_rag_no_info(rag_answer)
       THEN /\ debug_info' = [debug_info EXCEPT
                   !.fallback_used = TRUE,
                   !.notes = Append(@, <<"RAG returned 'no info', fallback to SQL">>)]
            /\ pc' = "sql_get_db"
            /\ caller' = "fallback"
            /\ events' = events \o << <<"fallback", "SQL">>, <<"call", "SQL">> >>
            /\ UNCHANGED final_answer
       ELSE /\ debug_info' = [debug_info EXCEPT !.final_agent = "RAG"]
            /\ final_answer' = rag_answer
            /\ pc' = "respond"
            /\ events' = Append(events, <<"accept", "RAG">>)
            /\ UNCHANGED caller
    /\ UNCHANGED <<debug_mode, router_resp, sql_answer, rag_answer, exc, outcome,
                   returned, engineVars, sanVars, retrVars>>

\* The variant of SqlFallbackReturned that keeps the answer of the semantic
\* engine when the answer of the query pipeline looks like an error.
SqlFallbackReturned_KeepsRag ==
    /\ pc = "sql_returned"
    /\ caller = "fallback"
    /\ IF _looks_like_sql_error(sql_answer)
       THEN /\ debug_info' = [debug_info EXCEPT !.final_agent = "RAG (no info)"]
            /\ final_answer' = rag_answer
            /\ events' = Append(events, <<"keep", "RAG">>)
       ELSE /\ debug_info' = [debug_info EXCEPT !.final_agent = "SQL"]
            /\ final_answer' = sql_answer
            /\ events' = Append(events, <<"accept", "SQL">>)
    /\ pc' = "respond"
    /\ UNCHANGED <<caller, debug_mode, router_resp, sql_answer, rag_answer, exc,
                   outcome, returned, engineVars, sanVars, retrVars>>

\* The variant of SqlFallbackReturned that tests the fallback's answer and
\* calls the semantic engine again.
SqlFallbackReturned_Retry ==
    /\ pc = "sql_returned"
    /\ caller = "fallback"
    /\ IF _looks_like_sql_error(sql_answer)
       THEN /\ pc' = "rag_get_vectorstore"
            /\ events' = events \o << <<"fallback", "RAG">>, <<"call", "RAG">> >>
            /\ UNCHANGED <<debug_info, final_answer>>
       ELSE /\ debug_info' = [debug_info EXCEPT !.final_agent = "SQL"]
            /\ final_answer' = sql_answer
            /\ pc' = "respond"
            /\ events' = Append(events, <<"accept", "SQL">>)
    /\ UNCHANGED <<caller, debug_mode, router_resp, sql_answer, rag_answer, exc,
                   outcome, returned, engineVars, sanVars, retrVars>>

\* The fallback call sql_answer = answer_booking_question_sql(question) returned.
SqlFallbackReturned ==
    /\ pc = "sql_returned"
    /\ caller = "fallback"
    /\ debug_info' = [debug_info EXCEPT !.final_agent = "SQL"]
    /\ final_answer' = sql_answer
    /\ pc' = "respond"
    /\ events' = Append(events, <<"accept", "SQL">>)
    /\ UNCHANGED <<caller, debug_mode, router_resp, sql_answer, rag_answer, exc,
                   outcome, returned, engineVars, sanVars, retrVars>>

\* except Exception, around the fallback call of the query pipeline.
SqlFallbackRaised ==
    /\ pc = "sql_raised"
    /\ caller = "fallback"
    /\ debug_info' = [debug_info EXCEPT
           !.notes = Append(@, Note("SQL fallback failed: ", exc)),
           !.final_agent = "RAG (no info)"]
    /\ final_answer' = rag_answer
    /\ pc' = "respond"
    /\ events' = Append(events, <<"keep", "RAG">>)
    /\ UNCHANGED <<caller, debug_mode, router_resp, sql_answer, rag_answer, exc,
                   outcome, returned, engineVars, sanVars, retrVars>>

\* The variant of UnexpectedError without the outer try: the exception of the
\* primary engine leaves the router.
UnexpectedError_Propagates ==
    /\ pc \in {"sql_raised", "rag_raised"}
    /\ caller = "primary"
    /\ outcome' = "raised"
    /\ pc' = "done"
    /\ events' = Append(events, <<"raised", "router">>)
    /\ UNCHANGED <<caller, debug_mode, router_resp, debug_info, sql_answer,
                   rag_answer, final_answer, exc, returned, engineVars, sanVars,
                   retrVars>>

\* The variant of UnexpectedError that tries the other engine when the
\* primary engine call raised.
UnexpectedError_FallsBack ==
    /\ pc \in {"sql_raised", "rag_raised"}
    /\ caller = "primary"
    /\ debug_info' = [debug_info EXCEPT !.fallback_used = TRUE]
    /\ pc' = IF pc = "sql_raised" THEN "rag_get_vectorstore" ELSE "sql_get_db"
    /\ caller' = "fallback"
    /\ events' = events \o
           (IF pc = "sql_raised"
            THEN << <<"fallback", "RAG">>, <<"call", "RAG">> >>
            ELSE << <<"fallback", "SQL">>, <<"call", "SQL">> >>)
    /\ UNCHANGED <<debug_mode, router_resp, sql_answer, rag_answer, final_answer,
                   exc, outcome, returned, engineVars, sanVars, retrVars>>

\* except Exception of the outer try: the primary engine raised.
UnexpectedError ==
    /\ pc \in {"sql_raised", "rag_raised"}
    /\ caller = "primary"
    /\ debug_info' = [debug_info EXCEPT
           !.notes = Append(@, Note("Unexpected error in orchestrator: ", exc)),
           !.final_agent = "ERROR"]
    /\ final_answer' = OrchestratorErrorAnswer(exc)
    /\ pc' = "respond"
    /\ events' = Append(events, <<"error", "router">>)
    /\ UNCHANGED <<caller, debug_mode, router_resp, sql_answer, rag_answer, exc,
                   outcome, returned, engineVars, sanVars, retrVars>>

\* "- " + "\n- ".join(notes)
RECURSIVE JoinNotes(_)
JoinNotes(notes) ==
    IF notes = << >> THEN << >>
    ELSE IF Len(notes) = 1 THEN Head(notes)
    ELSE Head(notes) \o <<NL, "- ">> \o JoinNotes(Tail(notes))

\* The markdown block debug_block.
DebugBlock(info) ==
    <<Fence, "debug", NL,
      "Orchestrator route label: ", info.route_label, NL,
      "Primary agent: ", info.primary_agent, NL,
      "Final agent: ", info.final_agent, NL,
      "Fallback used: ", IF info.fallback_used THEN "True" ELSE "False", NL,
      "Notes:", NL>>
    \o (IF info.notes # << >> THEN <<"- ">> \o JoinNotes(info.notes)
        ELSE <<"- (no additional notes)">>)
    \o <<NL, Fence>>

\* if debug_mode: return debug_block + two newlines + final_answer;
\* return final_answer
Respond ==
    /\ pc = "respond"
    /\ returned' = IF debug_mode
                   THEN DebugBlock(debug_info) \o <<NL, NL>> \o final_answer
                   ELSE final_answer
    /\ outcome' = "returned"
    /\ pc' = "done"
    /\ events' = Append(events, <<"done", "router">>)
    /\ UNCHANGED <<caller, debug_mode, router_resp, debug_info, sql_answer,
                   rag_answer, final_answer, exc, engineVars, sanVars, retrVars>>

Next ==
    \/ RouteQuestion
    \/ SqlGetDb
    \/ SqlGenerate
    \/ SqlExecute
    \/ SqlExplain
    \/ RagGetVectorstore
    \/ RagRetrieve
    \/ RagGenerate
    \/ EngineRaises
    \/ SqlPrimaryReturned
    \/ RagFallbackReturned
    \/ RagFallbackRaised
    \/ RagPrimaryReturned
    \/ SqlFallbackReturned
    \/ SqlFallbackRaised
    \/ UnexpectedError
    \/ Respond

Spec == Init /\ [][Next]_vars

(***************************************************************************)
(* The same question asked twice.  HOSPITALITY_DEBUG_UI is read on every   *)
(* call of answer_hotel_query_orchestrator, so the second request may run  *)
(* with the toggle switched.  The second request gets, from the classifier *)
(* and from every collaborator the first request also called, the response *)
(* the first request got; where the first request did not go, it gets any  *)
(* response.                                                               *)
(***************************************************************************)

\* The events of engine between its call and its return or raise.
RECURSIVE SegmentFrom(_, _, _)
SegmentFrom(evs, i, engine) ==
    IF i > Len(evs) THEN << >>
    ELSE IF evs[i] \in {<<"return", engine>>, <<"raise", engine>>} THEN <<evs[i]>>
    ELSE <<evs[i]>> \o SegmentFrom(evs, i + 1, engine)

EngineSegment(evs, engine) ==
    IF \E i \in 1..Len(evs) : evs[i] = <<"call", engine>>
    THEN SegmentFrom(evs, 1 + CHOOSE i \in 1..Len(evs) : evs[i] = <<"call", engine>>,
                     engine)
    ELSE << >>

Agree(s, t) ==
    \A i \in 1..(IF Len(s) <= Len(t) THEN Len(s) ELSE Len(t)) : s[i] = t[i]

InBoth(ev) ==
    /\ \E i \in 1..Len(events) : events[i] = ev
    /\ \E i \in 1..Len(first_run.events) : first_run.events[i] = ev

\* The second request has got the responses of the first one so far.
SameResponses ==
    first_run # NoRun
        => /\ \A engine \in {"SQL", "RAG"} :
                  Agree(EngineSegment(events, engine),
                        EngineSegment(first_run.events, engine))
           /\ InBoth(<<"sql_chain.invoke", "ok">>) => raw_sql_text = first_run.raw_sql_text
           /\ InBoth(<<"db.run", "ok">>) => raw_result = first_run.raw_result
           /\ InBoth(<<"similarity_search", "ok">>) => retr_args = first_run.retr_args
           /\ InBoth(<<"return", "SQL">>) => sql_answer = first_run.sql_answer
           /\ InBoth(<<"return", "RAG">>) => rag_answer = first_run.rag_answer
           /\ (InBoth(<<"raise", "SQL">>) \/ InBoth(<<"raise", "RAG">>))
                  => exc = first_run.exc

\* The texts the text generator returns to the two requests.
ReplayedTexts == {<< >>} \cup { <<c>> : c \in AnswerChars }

ShortAnswers ==
    /\ sql_answer \in GeneratorTexts => sql_answer \in ReplayedTexts
    /\ rag_answer \in GeneratorTexts => rag_answer \in ReplayedTexts

\* The first request has returned; the question is asked again with the
\* debug toggle switched.
AskAgain ==
    /\ pc = "done"
    /\ first_run = NoRun
    /\ first_run' = [debug_mode |-> debug_mode, events |-> events,
                     debug_info |-> debug_info, final_answer |-> final_answer,
                     returned |-> returned, sql_answer |-> sql_answer,
                     rag_answer |-> rag_answer, exc |-> exc,
                     raw_sql_text |-> raw_sql_text, raw_result |-> raw_result,
                     retr_args |-> retr_args]
    /\ debug_mode' = ~debug_mode
    /\ pc' = "start"
    /\ caller' = "none"
    /\ debug_info' = NoDebugInfo
    /\ sql_answer' = << >>
    /\ rag_answer' = << >>
    /\ final_answer' = << >>
    /\ exc' = ""
    /\ outcome' = "running"
    /\ returned' = << >>
    /\ raw_sql_text' = << >>
    /\ raw_result' = ""
    /\ db_runs' = 0
    /\ events' = << >>
    /\ san_raw' = << >> /\ san_prev' = << >> /\ san_text' = << >> /\ san_passes' = 0
    /\ retr_args' = NoArgs /\ retr_called' = FALSE /\ retr_out' = NoResult
    /\ UNCHANGED <<router_resp, memoVars, indexVars, wsVars, upsertVars>>

\* agent_type = _route_question(question) of the second request: the
\* classifier returns what it returned to the first request, and
\* _route_question computes the label of the first request from it.
RouteQuestionAgain ==
    /\ pc = "start"
    /\ first_run # NoRun
    /\ LET agent_type == first_run.debug_info.route_label
       IN  /\ debug_info' = [debug_info EXCEPT !.route_label = agent_type,
                                               !.primary_agent = agent_type]
           /\ pc' = IF agent_type = "SQL" THEN "sql_get_db"
                    ELSE "rag_get_vectorstore"
           /\ events' = events \o << <<"classified", agent_type>>,
                                     <<"call", agent_type>> >>
    /\ caller' = "primary"
    /\ UNCHANGED <<debug_mode, router_resp, sql_answer, rag_answer, final_answer,
                   exc, outcome, returned, engineVars, sanVars, retrVars>>

NextTwice ==
    \/ /\ first_run # NoRun => pc # "start"
       /\ Next
       /\ ShortAnswers'
       /\ SameResponses'
    \/ AskAgain
    \/ RouteQuestionAgain

SpecTwice == Init /\ [][NextTwice]_vars

\* The request under the assumption that every call of a collaborator returns
\* or raises: the function is straight-line code on one executor thread, so a
\* step that can be taken is taken.
SpecLive == Spec /\ WF_vars(Next)

(***************************************************************************)
(* The memoized handles.  Every request runs on its own executor thread    *)
(* (loop.run_in_executor(None, ...)), and the getters _get_db, _get_llm,   *)
(* _get_vectorstore and _get_router_chain share one pattern, without a     *)
(* lock:                                                                   *)
(*     global X                                                            *)
(*     if X is not None: return X                                          *)
(*     X = <constructor>(...)                                              *)
(*     return X                                                            *)
(* A thread may be preempted between any two of these steps.               *)
(***************************************************************************)
InitMemo ==
    /\ UpsertIdle
    /\ first_run = NoRun
    /\ WsIdle
    /\ IndexIdle
    /\ SanIdle
    /\ RetrIdle
    /\ RouterIdle

\* Thread t, serving a request, enters the getter of handle h.
GetHandle(t, h) ==
    /\ threads[t].pc = "idle"
    /\ threads' = [threads EXCEPT ![t] = [pc |-> "check", handle |-> h,
                                          obj |-> None]]
    /\ UNCHANGED memo

\* if X is not None: return X
CheckHandle(t) ==
    /\ threads[t].pc = "check"
    /\ LET X == memo[threads[t].handle].value
       IN  threads' = [threads EXCEPT ![t] =
                          IF X # None
                          THEN IdleThread
                          ELSE [@ EXCEPT !.pc = "construct"]]
    /\ UNCHANGED memo

\* The call of the constructor, which returns a new object or raises.
ConstructHandle(t) ==
    /\ threads[t].pc = "construct"
    /\ LET h == threads[t].handle
       IN  \/ /\ memo' = [memo EXCEPT ![h].built = @ + 1]
              /\ threads' = [threads EXCEPT ![t].pc = "assign",
                                            ![t].obj = memo[h].built + 1]
           \/ /\ threads' = [threads EXCEPT ![t] = IdleThread]
              /\ UNCHANGED memo

\* X = <the new object>; return X
AssignHandle(t) ==
    /\ threads[t].pc = "assign"
    /\ memo' = [memo EXCEPT ![threads[t].handle].value = threads[t].obj]
    /\ threads' = [threads EXCEPT ![t] = IdleThread]

NextMemo ==
    /\ \E t \in Threads :
           \/ \E h \in Handles : GetHandle(t, h)
           \/ CheckHandle(t)
           \/ ConstructHandle(t)
           \/ AssignHandle(t)
    /\ UNCHANGED <<sanVars, retrVars, routerVars, raw_sql_text, raw_result,
                   db_runs, indexVars, wsVars, first_run, upsertVars,
                   events>>

SpecMemo == InitMemo /\ [][NextMemo]_vars

(***************************************************************************)
(* The semantic index.  Every request runs answer_hotel_question_rag on    *)
(* its own executor thread; _get_vectorstore memoizes the handle in the    *)
(* global _vectorstore without a lock, and assigns it before it counts the *)
(* collection and indexes the hotel documents.  The collection lives in    *)
(* the index server and may hold the documents of an earlier process.      *)
(***************************************************************************)
InitIndex ==
    /\ UpsertIdle
    /\ first_run = NoRun
    /\ WsIdle
    /\ _vectorstore = None
    /\ collection \in {0, MaxBatches}
    /\ files_present \in BOOLEAN
    /\ force_reindex \in BOOLEAN
    /\ rag_threads = [t \in Threads |-> IdleRequest]
    /\ searches = {}
    /\ initialised = FALSE
    /\ init_failed = FALSE
    /\ SanIdle
    /\ RetrIdle
    /\ RouterIdle

\* return <answer> in answer_hotel_question_rag on thread t.
Answers(t, answer) ==
    rag_threads' = [rag_threads EXCEPT ![t].pc = "done", ![t].answer = answer]

\* vs = _get_vectorstore():  if _vectorstore is not None: return _vectorstore
EnterGetVectorstore(t) ==
    /\ rag_threads[t].pc = "idle"
    /\ rag_threads' = [rag_threads EXCEPT ![t].pc =
                          IF _vectorstore # None THEN "search" ELSE "connect"]
    /\ UNCHANGED <<_vectorstore, collection, searches, initialised, init_failed>>

\* chromadb.HttpClient(...), _get_embeddings() and _vectorstore = Chroma(...):
\* one of the calls raises, or the global is assigned.
AssignVectorstore(t) ==
    /\ rag_threads[t].pc = "connect"
    /\ \/ /\ _vectorstore' = t
          /\ rag_threads' = [rag_threads EXCEPT ![t].pc = "count"]
       \/ /\ Answers(t, "error")
          /\ UNCHANGED _vectorstore
    /\ UNCHANGED <<collection, searches, initialised, init_failed>>

\* count = _vectorstore._collection.count(), 0 when the call raises; under
\* force_reindex the collection is deleted, the global is assigned again and
\* count is 0.  A collection that is not empty is not indexed again.
CountCollection(t) ==
    /\ rag_threads[t].pc = "count"
    /\ \E count \in {collection, 0} :
           LET c == IF force_reindex THEN 0 ELSE count
           IN  /\ rag_threads' = [rag_threads EXCEPT
                      ![t].count = c,
                      ![t].pc = IF c = 0 THEN "load" ELSE "search"]
               /\ initialised' = (initialised \/ c # 0)
    /\ IF force_reindex
       THEN collection' = 0 /\ _vectorstore' = t
       ELSE UNCHANGED <<collection, _vectorstore>>
    /\ UNCHANGED <<searches, init_failed>>

\* docs = _load_documents(), which raises FileNotFoundError when the hotel
\* files are missing; the exception leaves _get_vectorstore.
LoadDocuments(t) ==
    /\ rag_threads[t].pc = "load"
    /\ IF files_present
       THEN /\ rag_threads' = [rag_threads EXCEPT ![t].pc = "add"]
            /\ UNCHANGED init_failed
       ELSE /\ Answers(t, "missing_files")
            /\ init_failed' = TRUE
    /\ UNCHANGED <<_vectorstore, collection, searches, initialised>>

\* _vectorstore.add_documents(chunks): the next batch reaches the collection,
\* or the call raises; behind the last batch _get_vectorstore returns.
AddDocuments(t) ==
    /\ rag_threads[t].pc = "add"
    /\ \/ /\ collection' = collection + 1
          /\ rag_threads' = [rag_threads EXCEPT
                 ![t].added = @ + 1,
                 ![t].pc = IF rag_threads[t].added + 1 = MaxBatches
                           THEN "search" ELSE "add"]
          /\ initialised' = (initialised \/ rag_threads[t].added + 1 = MaxBatches)
          /\ UNCHANGED init_failed
       \/ /\ Answers(t, "error")
          /\ init_failed' = TRUE
          /\ UNCHANGED <<collection, initialised>>
    /\ UNCHANGED <<_vectorstore, searches>>

\* candidates = vs.similarity_search_with_score(...) in
\* _retrieve_docs_adaptive, and the answer: the no-information sentence when
\* no candidate came back.
SimilaritySearch(t) ==
    /\ rag_threads[t].pc = "search"
    /\ searches' = searches \cup
           {[thread |-> t, size |-> collection, initialised |-> initialised,
             failed |-> init_failed]}
    /\ Answers(t, IF collection = 0 THEN "no_info" ELSE "answer")
    /\ UNCHANGED <<_vectorstore, collection, initialised, init_failed>>

NextIndex ==
    /\ \E t \in Threads :
           \/ EnterGetVectorstore(t)
           \/ AssignVectorstore(t)
           \/ CountCollection(t)
           \/ LoadDocuments(t)
           \/ AddDocuments(t)
           \/ SimilaritySearch(t)
    /\ UNCHANGED <<sanVars, retrVars, routerVars, raw_sql_text, raw_result,
                   db_runs, memoVars, wsVars, first_run, upsertVars, events,
                   files_present,
                   force_reindex>>

SpecIndex == InitIndex /\ [][NextIndex]_vars

(***************************************************************************)
(* The WebSocket handler of main.py, for one connection.  A text frame is  *)
(* what json.loads makes of it: no JSON text, an object with or without    *)
(* the key content, or another JSON value.  An agent returns an answer, an *)
(* error-marked answer, or raises.                                         *)
(***************************************************************************)
Frames ==
    { [json |-> "invalid"],
      [json |-> "object", content |-> "text"],
      [json |-> "object", content |-> "number"],
      [json |-> "object", content |-> "absent"],
      [json |-> "string"],
      [json |-> "number"],
      [json |-> "array"],
      [json |-> "null"] }

\* message_data = json.loads(raw_data)
\* user_query = message_data.get("content", raw_data)
\* except json.JSONDecodeError: user_query = raw_data
\* A JSON value that is no object has no method get: AttributeError.
ParseFrame(frame) ==
    IF frame.json = "invalid" THEN "raw_data"
    ELSE IF frame.json = "object"
    THEN CASE frame.content = "absent" -> "raw_data"
           [] frame.content = "text"   -> "content_text"
           [] frame.content = "number" -> "content_number"
    ELSE "AttributeError"

\* user_query[:100] in the log lines: a number has no slices (TypeError).
Sliceable(query) == query # "content_number"

GENERIC_UNAVAILABLE_MESSAGE == <<"generic">>

Outcomes == {"answer", "error_answer", "raises"}

\* response_content = GENERIC_UNAVAILABLE_MESSAGE
Generic == [calls |-> << >>, response |-> GENERIC_UNAVAILABLE_MESSAGE, raised |-> FALSE]

\* What the handler did before result.
After(calls, result) == [result EXCEPT !.calls = calls \o @]

\* try: logger.info(... user_query[:100] ...); response_content = await
\* handle_<agent>(user_query)  except Exception: <handler>
\* The log line raises before the call when the query has no slices.
Try(a, query, out, handler) ==
    IF ~Sliceable(query) THEN handler
    ELSE IF out[a] = "raises"
    THEN After(<< <<"call", a>>, <<"raise", a>> >>, handler)
    ELSE [calls |-> << <<"call", a>>, <<"return", a>> >>,
          response |-> <<a, out[a]>>, raised |-> FALSE]

\* response_content = await handle_hotel_query_simple(user_query), in no try
\* block of the chain: its exception leaves the chain.
Unguarded(a, out) ==
    IF out[a] = "raises"
    THEN [calls |-> << <<"call", a>>, <<"raise", a>> >>,
          response |-> <<"none">>, raised |-> TRUE]
    ELSE [calls |-> << <<"call", a>>, <<"return", a>> >>,
          response |-> <<a, out[a]>>, raised |-> FALSE]

\* if EXERCISE_0_AVAILABLE: ... else: GENERIC_UNAVAILABLE_MESSAGE, in the
\* except clause of Exercise 1.
AfterExercise1(avail, out) ==
    IF avail[4] THEN Unguarded(4, out) ELSE Generic

\* The except clause of Exercise 2: Exercise 1, then Exercise 0.
AfterExercise2(avail, query, out) ==
    IF avail[3] THEN Try(3, query, out, AfterExercise1(avail, out))
    ELSE IF avail[4] THEN Unguarded(4, out)
    ELSE Generic

\* The except clause of the Super SQL agent: SQL, RAG, Exercise 0.
FallbackChain(avail, query, out) ==
    IF avail[2] THEN Try(2, query, out, AfterExercise2(avail, query, out))
    ELSE IF avail[3] THEN Try(3, query, out, AfterExercise1(avail, out))
    ELSE IF avail[4] THEN Try(4, query, out, Generic)
    ELSE Generic

\* The branch without the Super SQL agent: the same chain, written out a
\* second time in main.py.
ClassicChain(avail, query, out) ==
    IF avail[2]
    THEN Try(2, query, out,
             IF avail[3]
             THEN Try(3, query, out, IF avail[4] THEN Unguarded(4, out) ELSE Generic)
             ELSE IF avail[4] THEN Unguarded(4, out)
             ELSE Generic)
    ELSE IF avail[3]
    THEN Try(3, query, out, IF avail[4] THEN Unguarded(4, out) ELSE Generic)
    ELSE IF avail[4] THEN Try(4, query, out, Generic)
    ELSE Generic

\* if SUPER_SQL_AVAILABLE: ... else: ...
AgentChain(avail, query, out) ==
    IF avail[1] THEN Try(1, query, out, FallbackChain(avail, query, out))
    ELSE ClassicChain(avail, query, out)

\* await websocket.accept(), with the flags the imports of main.py left.
InitWs ==
    /\ UpsertIdle
    /\ first_run = NoRun
    /\ available \in [1..4 -> BOOLEAN]
    /\ ws_pc = "receive"
    /\ raw_data = NoFrame
    /\ user_query = "none"
    /\ ws_result = NoResult_ws
    /\ sent_count = 0
    /\ frames = 0
    /\ IndexIdle
    /\ SanIdle
    /\ RetrIdle
    /\ RouterIdle

\* raw_data = await websocket.receive_text() and the parsing of the frame.
\* An AttributeError is caught by no clause of the loop: the clause around
\* the loop logs it and the connection is closed.
ReceiveText ==
    /\ ws_pc = "receive"
    /\ frames < MaxFrames
    /\ \E frame \in Frames :
           /\ raw_data' = frame
           /\ frames' = frames + 1
           /\ LET q == ParseFrame(frame)
              IN  IF q = "AttributeError"
                  THEN ws_pc' = "closed" /\ user_query' = "none"
                  ELSE ws_pc' = "agents" /\ user_query' = q
    /\ ws_result' = NoResult_ws
    /\ UNCHANGED <<available, sent_count>>

\* receive_text raises WebSocketDisconnect: break.
Disconnect ==
    /\ ws_pc = "receive"
    /\ ws_pc' = "closed"
    /\ UNCHANGED <<available, raw_data, user_query, ws_result, sent_count, frames>>

\* The chain of agents for this message.  An exception that leaves the
\* chain ends the loop and the connection is closed.
RunAgents ==
    /\ ws_pc = "agents"
    /\ \E out \in [1..4 -> Outcomes] :
           LET r == AgentChain(available, user_query, out)
           IN  /\ ws_result' = r
               /\ ws_pc' = IF r.raised THEN "closed" ELSE "send"
    /\ UNCHANGED <<available, raw_data, user_query, sent_count, frames>>

\* await websocket.send_text(JSONSTART ... JSONEND)
SendText ==
    /\ ws_pc = "send"
    /\ sent_count' = sent_count + 1
    /\ ws_pc' = "receive"
    /\ UNCHANGED <<available, raw_data, user_query, ws_result, frames>>

NextWs ==
    /\ \/ ReceiveText
       \/ Disconnect
       \/ RunAgents
       \/ SendText
    /\ UNCHANGED <<sanVars, retrVars, routerVars, raw_sql_text, raw_result,
                   db_runs, memoVars, indexVars, first_run, upsertVars,
                   events>>

SpecWs == InitWs /\ [][NextWs]_vars

(***************************************************************************)
(* The hotel metadata loader (bookings-db, load_data.py).                  *)
(* upsert_hotels_and_rooms sends one INSERT ... ON CONFLICT ... DO UPDATE  *)
(* per hotel and one per room; load_excel_to_postgres commits behind it.   *)
(* A table is the set of its rows.                                         *)
(***************************************************************************)

HotelKeys == {"h1", "h2", NULL}

Address1 == [Country |-> "ES", City |-> "Madrid", ZipCode |-> "28001",
             Address |-> "Gran Via 1"]

RoomRecord(id, floor) ==
    [RoomId |-> id, Floor |-> floor, Category |-> "Standard", Type |-> "Double",
     Guests |-> 2, PriceOffSeason |-> 100, PricePeakSeason |-> 150]

RoomLists ==
    { << >>,
      <<RoomRecord("r1", "01")>>,
      <<RoomRecord("r1", "01"), RoomRecord("r1", "02")>>,
      <<RoomRecord(NULL, "01")>> }

\* The records of hotels.json; a key that is missing reads as None.  The
\* value of Address is an object, given as a sequence of length 1, or absent.
HotelRecords ==
    { [hotelkey |-> k, Name |-> c[1], Address |-> c[2], Rooms |-> rs] :
          k \in HotelKeys, c \in {<<"A", <<Address1>>>>, <<"B", << >>>>}, rs \in RoomLists }

HotelLists == UNION { [1..n -> HotelRecords] : n \in 0..MaxHotels }

\* address = h.get("Address", {}) or {}
AddressOf(h) ==
    IF h.Address = << >>
    THEN [Country |-> NULL, City |-> NULL, ZipCode |-> NULL, Address |-> NULL]
    ELSE h.Address[1]

\* The parameters of the INSERT INTO hotels.
HotelRow(h) ==
    [hotel_key |-> h.hotelkey, hotel_name |-> h.Name,
     country |-> AddressOf(h).Country, city |-> AddressOf(h).City,
     zip_code |-> AddressOf(h).ZipCode, address |-> AddressOf(h).Address]

\* The parameters of the INSERT INTO rooms.
RoomRow(h, r) ==
    [hotel_key |-> h.hotelkey, room_id |-> r.RoomId, floor |-> r.Floor,
     room_category |-> r.Category, room_type |-> r.Type, guests |-> r.Guests,
     price_off_season |-> r.PriceOffSeason, price_peak_season |-> r.PricePeakSeason]

\* The statement violates a constraint: psycopg2 raises, the loop is left.
Raised(db) == [db EXCEPT !.raised = TRUE]

\* The variant of InsertHotel with ON CONFLICT (hotel_key) DO NOTHING.
InsertHotel_DoNothing(db, row) ==
    IF row.hotel_key = NULL THEN Raised(db)
    ELSE IF \E x \in db.hotels : x.hotel_key = row.hotel_key THEN db
    ELSE [db EXCEPT !.hotels = @ \cup {row}]

\* INSERT INTO hotels ... ON CONFLICT (hotel_key) DO UPDATE SET ...: the row
\* of the key gets the new columns, or the row is added.  hotel_key is the
\* primary key, NULL violates it.
InsertHotel(db, row) ==
    IF row.hotel_key = NULL THEN Raised(db)
    ELSE [db EXCEPT !.hotels = { x \in @ : x.hotel_key # row.hotel_key } \cup {row}]

\* INSERT INTO rooms ... ON CONFLICT (hotel_key, room_id) DO UPDATE SET ...
\* (hotel_key, room_id) is the primary key, hotel_key refers to hotels.
InsertRoom(db, row) ==
    IF \/ row.hotel_key = NULL
       \/ row.room_id = NULL
       \/ ~\E x \in db.hotels : x.hotel_key = row.hotel_key
    THEN Raised(db)
    ELSE [db EXCEPT !.rooms = { x \in @ : \/ x.hotel_key # row.hotel_key
                                           \/ x.room_id # row.room_id } \cup {row}]

\* for r in rooms: ...
RECURSIVE UpsertRooms(_, _, _)
UpsertRooms(db, h, rooms) ==
    IF db.raised \/ rooms = << >> THEN db
    ELSE UpsertRooms(InsertRoom(db, RoomRow(h, Head(rooms))), h, Tail(rooms))

\* for h in hotels: ...
RECURSIVE UpsertHotels(_, _)
UpsertHotels(db, hotels) ==
    IF db.raised \/ hotels = << >> THEN db
    ELSE LET h == Head(hotels)
             with_hotel == InsertHotel(db, HotelRow(h))
         IN  UpsertHotels(UpsertRooms(with_hotel, h, h.Rooms), Tail(hotels))

upsert_hotels_and_rooms(tables, hotels) ==
    UpsertHotels([hotels |-> tables.hotels, rooms |-> tables.rooms, raised |-> FALSE],
                 hotels)

\* What the tables hold before the loader runs: nothing, or rows of an
\* earlier load.
EarlierRows ==
    { NoTables,
      [hotels |-> { [HotelRow([hotelkey |-> "h1", Name |-> "Z", Address |-> << >>])
                        EXCEPT !.city = "Sevilla"],
                    HotelRow([hotelkey |-> "h3", Name |-> "C", Address |-> <<Address1>>]) },
       rooms |-> { RoomRow([hotelkey |-> "h1"], RoomRecord("r1", "09")),
                   RoomRow([hotelkey |-> "h3"], RoomRecord("r1", "01")) }] }

InitUpsert ==
    /\ first_run = NoRun
    /\ WsIdle
    /\ IndexIdle
    /\ RouterIdle
    /\ SanIdle
    /\ RetrIdle
    /\ MemoIdle
    /\ raw_sql_text = << >>
    /\ raw_result = ""
    /\ db_runs = 0
    /\ events = << >>
    /\ \E t \in EarlierRows : hotels_table = t.hotels /\ rooms_table = t.rooms
    /\ hotel_list \in HotelLists
    /\ applications = 0
    /\ after_first = NoTables
    /\ upsert_raised = FALSE

\* hotels = load_hotels_json(); upsert_hotels_and_rooms(cursor, hotels);
\* conn.commit().  When a statement raises, nothing of the transaction is
\* committed and the connection is closed.
LoadHotels ==
    /\ applications < MaxApplications
    /\ LET r == upsert_hotels_and_rooms([hotels |-> hotels_table, rooms |-> rooms_table],
                                        hotel_list)
           committed == IF r.raised
                        THEN [hotels |-> hotels_table, rooms |-> rooms_table]
                        ELSE [hotels |-> r.hotels, rooms |-> r.rooms]
       IN  /\ hotels_table' = committed.hotels
           /\ rooms_table' = committed.rooms
           /\ upsert_raised' = r.raised
           /\ after_first' = IF applications = 0 THEN committed ELSE after_first
    /\ applications' = applications + 1
    /\ UNCHANGED <<hotel_list, sanVars, retrVars, routerVars, raw_sql_text, raw_result,
                   db_runs, memoVars, indexVars, wsVars, first_run, events>>

NextUpsert == LoadHotels

SpecUpsert == InitUpsert /\ [][NextUpsert]_vars

(***************************************************************************)
(* Properties of the adaptive retriever (specification SpecRetr).          *)
(***************************************************************************)
CandidateCount == Len(retr_args.candidates)
SelectedCount == Len(retr_out.docs)

\* C3, as stated: for all integers min_docs and max_docs and every candidate
\* list with at least min_docs candidates, the number of selected passages
\* is at least min_docs and at most max_docs.
C3_SelectedWithinMinMax ==
    (retr_called /\ CandidateCount >= retr_args.min_docs)
        => /\ retr_args.min_docs <= SelectedCount
           /\ SelectedCount <= retr_args.max_docs

\* C3, amended: the same for all integers with min_docs <= max_docs and
\* max_docs >= 0.
C3_SelectedWithinMinMaxWhenOrdered ==
    (/\ retr_called
     /\ CandidateCount >= retr_args.min_docs
     /\ retr_args.min_docs <= retr_args.max_docs
     /\ retr_args.max_docs >= 0)
        => /\ retr_args.min_docs <= SelectedCount
           /\ SelectedCount <= retr_args.max_docs

\* C3 witness: a call where max_docs, strictly between min_docs and the
\* number of candidates, is what ends the selection.
C3_Witness ==
    /\ retr_called
    /\ 0 < retr_args.min_docs
    /\ retr_args.min_docs < retr_args.max_docs
    /\ retr_args.max_docs < CandidateCount
    /\ SelectedCount = retr_args.max_docs
    /\ \E i \in 1..Len(retr_out.dbg.debug_candidates) :
           retr_out.dbg.debug_candidates[i].reason = "max_docs_reached"

\* C4: a call with fewer candidates than min_docs selects every candidate,
\* whatever max_docs and the cutoff are.
C4_AllSelectedBelowMin ==
    (retr_called /\ CandidateCount < retr_args.min_docs)
        => SelectedCount = CandidateCount

\* C4 witness: fewer candidates than min_docs, max_docs below the number of
\* candidates and a candidate beyond the cutoff, all selected.
C4_Witness ==
    /\ retr_called
    /\ CandidateCount >= 1
    /\ CandidateCount < retr_args.min_docs
    /\ retr_args.max_docs < CandidateCount
    /\ \E i \in 1..CandidateCount :
           4 * retr_args.candidates[i].score > retr_out.dbg.cutoff_q
    /\ SelectedCount = CandidateCount

\* C5: the selection is a prefix of the candidates in ascending order of
\* distance: the selected passages are distinct candidates in ascending order
\* of distance, and no candidate left out is closer than a selected one.
C5_SelectionIsSortedPrefix ==
    retr_called =>
        LET docs  == retr_out.docs
            cands == retr_args.candidates
            picked == { docs[i].doc : i \in 1..Len(docs) }
        IN  /\ \A i \in 1..Len(docs) :
                   \E j \in 1..Len(cands) : cands[j] = docs[i]
            /\ Cardinality(picked) = Len(docs)
            /\ \A i \in 1..Len(docs) : \A j \in 1..Len(docs) :
                   i < j => docs[i].score <= docs[j].score
            /\ \A j \in 1..Len(cands) :
                   cands[j].doc \notin picked
                       => \A i \in 1..Len(docs) : docs[i].score <= cands[j].score

\* C5 witness: a candidate list that the index returned out of order, of
\* which a proper, non-empty part is selected.
C5_Witness ==
    /\ retr_called
    /\ 0 < SelectedCount
    /\ SelectedCount < CandidateCount
    /\ \E i \in 1..(CandidateCount - 1) :
           retr_args.candidates[i].score > retr_args.candidates[i + 1].score

\* The rows of the trace, one per candidate in ascending order of distance.
TraceRows == retr_out.dbg.debug_candidates

\* The smallest candidate distance.
BestDistance ==
    CHOOSE b \in { retr_args.candidates[i].score : i \in 1..CandidateCount } :
        \A i \in 1..CandidateCount : b <= retr_args.candidates[i].score

\* distance <= min(absoluteThreshold, best * relativeMultiplier), with the
\* multiplier in quarters.
WithinStatedCutoff(distance) ==
    /\ distance <= retr_args.abs_threshold
    /\ 4 * distance <= BestDistance * retr_args.rel_mult_q

\* The candidate at rank i is selected: the selection is a prefix of the
\* ranks, and the trace says chosen.
SelectedAt(i) == i <= SelectedCount /\ TraceRows[i].chosen

\* The number of candidates selected before rank i.
SelectedBefore(i) == Cardinality({ k \in 1..(i - 1) : SelectedAt(k) })

\* C21: a candidate at a rank i above min_docs is selected if and only if
\* every candidate at the ranks min_docs+1..i has a distance within the
\* cutoff and fewer than max_docs candidates were selected before it; the
\* first candidate above min_docs that is not selected ends the scan.
C21_CutoffRule ==
    (retr_called /\ CandidateCount > 0)
        => /\ Len(TraceRows) = CandidateCount
           /\ \A i \in 1..CandidateCount :
                  i > retr_args.min_docs
                      => /\ SelectedAt(i)
                              <=> /\ \A j \in 1..i :
                                         j > retr_args.min_docs
                                             => WithinStatedCutoff(TraceRows[j].score)
                                  /\ SelectedBefore(i) < retr_args.max_docs
                         /\ ~SelectedAt(i)
                              => \A k \in (i + 1)..CandidateCount : ~SelectedAt(k)
           /\ \A i \in 1..CandidateCount :
                  (i <= SelectedCount) <=> TraceRows[i].chosen

\* C21 witness: a candidate above min_docs at exactly the cutoff is
\* selected, the next one is beyond the cutoff and ends the scan, and
\* max_docs is not reached.
C21_Witness ==
    /\ retr_called
    /\ CandidateCount > 0
    /\ retr_args.max_docs >= CandidateCount
    /\ \E i \in 2..(CandidateCount - 1) :
           /\ i > retr_args.min_docs
           /\ SelectedAt(i)
           /\ 4 * TraceRows[i].score = retr_out.dbg.cutoff_q
           /\ ~SelectedAt(i + 1)

\* The four reasons of the trace.
TraceReasons ==
    {"within_min_docs", "score<=cutoff", "score>cutoff_break", "max_docs_reached"}

\* C22: the trace returned with a non-empty candidate list has, for every
\* candidate, a row that says whether it was chosen and gives exactly one of
\* the four reasons.
C22_TraceHasReasonPerCandidate ==
    (retr_called /\ CandidateCount > 0)
        => /\ Len(TraceRows) = CandidateCount
           /\ \A i \in 1..CandidateCount :
                  /\ TraceRows[i].rank = i
                  /\ TraceRows[i].chosen \in BOOLEAN
                  /\ TraceRows[i].reason \in TraceReasons

(***************************************************************************)
(* Properties of the statement sanitizer (specification SpecSan).          *)
(***************************************************************************)

\* C6, as stated: sanitization is idempotent: a second pass returns the text
\* of the first pass.
C6_SanitizeIdempotent ==
    san_passes = 2 => san_text = san_prev

\* The tokens of a statement: maximal runs of word characters and every
\* other character on its own; white space separates tokens and is none.
RECURSIVE Tokenize(_, _)
Tokenize(s, p) ==
    IF p > Len(s) THEN << >>
    ELSE IF IsSpace(s[p]) THEN Tokenize(s, SpaceRunEnd(s, p) + 1)
    ELSE LET e == IF IsWordChar(s[p]) THEN WordRunEnd(s, p) ELSE p
         IN  <<SubSeq(s, p, e)>> \o Tokenize(s, e + 1)

TokOn == <<"o", "n">>
TokOcc == <<"o", "c", "c">>
Keywords == { <<"O", "N">>, <<"J", "O", "I", "N">>, <<"F", "R", "O", "M">>,
              <<"S", "E", "L", "E", "C", "T">> }

IsIdentToken(w) == IsIdentStart(w[1]) /\ w \notin Keywords

\* Token i of t is the alias on in a qualified reference: on followed by a dot.
IsAliasReference(t, i) ==
    /\ t[i] = TokOn
    /\ i < Len(t)
    /\ t[i + 1] = <<".">>

\* Token i of t is the join keyword written in lowercase: on followed by the
\* first operand of the join condition.
IsJoinKeyword(t, i) ==
    /\ t[i] = TokOn
    /\ i < Len(t)
    /\ IsIdentToken(t[i + 1])

\* Token i of t declares the alias on: on after the identifier it names,
\* and not the join keyword.
IsAliasDeclaration(t, i) ==
    /\ t[i] = TokOn
    /\ i >= 2
    /\ IsIdentToken(t[i - 1])
    /\ ~IsJoinKeyword(t, i)

\* C7, as stated: sanitization rewrites only the alias token on, at its
\* declaration and in its qualified references; every other token of the
\* statement is left unchanged.
C7_OnlyAliasRewritten ==
    san_passes = 1 =>
        LET tin  == Tokenize(san_raw, 1)
            tout == Tokenize(san_text, 1)
        IN  /\ Len(tout) = Len(tin)
            /\ \A i \in 1..Len(tin) :
                   tout[i] # tin[i]
                       => /\ tout[i] = TokOcc
                          /\ IsAliasReference(tin, i) \/ IsAliasDeclaration(tin, i)

\* The sanitized statement of the specification's scenario.
ScenarioSanitized ==
    <<"S", "E", "L", "E", "C", "T", " ", "*", " ", "F", "R", "O", "M", " ",
      "r", "o", "o", "m", "s", " ", "r", " ", "J", "O", "I", "N", " ",
      "o", "c", "c", "u", "p", "i", "e", "d", "_", "n", "i", "g", "h", "t", "s",
      " ", "o", "c", "c", " ", "O", "N", " ", "o", "c", "c", ".", "r", "o", "o",
      "m", "_", "i", "d", " ", "=", " ", "r", ".", "i", "d">>

\* C8, as stated: after sanitization no declaration (identifier, white space,
\* on) and no qualified reference (on followed by a dot) remains, and the
\* statement of the scenario has its declaration and its reference renamed.
C8_NoAliasRemains ==
    san_passes = 1 =>
        /\ \A p \in 1..Len(san_text) :
               ~AliasMatch(san_text, p).ok /\ ~RefMatch(san_text, p)
        /\ san_raw = ScenarioStatement => san_text = ScenarioSanitized

(***************************************************************************)
(* Properties of the router (specification Spec).                          *)
(***************************************************************************)
Called(engine) == \E i \in 1..Len(events) : events[i] = <<"call", engine>>

HasReturned(engine) == \E i \in 1..Len(events) : events[i] = <<"return", engine>>

HasRaised(engine) == \E i \in 1..Len(events) : events[i] = <<"raise", engine>>

CallCount(engine) ==
    Cardinality({ i \in 1..Len(events) : events[i] = <<"call", engine>> })

FallbackCount ==
    Cardinality({ i \in 1..Len(events) : events[i][1] = "fallback" })

PrimaryAgent == debug_info.primary_agent

OtherAgent == IF PrimaryAgent = "SQL" THEN "RAG" ELSE "SQL"

AnswerOf(engine) == IF engine = "SQL" THEN sql_answer ELSE rag_answer

\* The text is empty, or it begins, behind leading white space, with prefix.
EmptyOrBeginsWith(text, prefix) ==
    \/ text = << >>
    \/ \E k \in 1..Len(text) :
           /\ \A i \in 1..(k - 1) : IsSpace(text[i])
           /\ k + Len(prefix) - 1 <= Len(text)
           /\ \A j \in 1..Len(prefix) : text[k + j - 1] = prefix[j]

\* C1, as stated: the router invokes the fallback engine if and only if the
\* primary answer is empty or begins with the error marker (analytical
\* primary), or is empty or begins with the no-information sentence, its
\* final period included (semantic primary).
C1_FallbackIffContractWithPeriod ==
    (pc = "done" /\ HasReturned(PrimaryAgent))
        => (Called(OtherAgent)
              <=> IF PrimaryAgent = "SQL"
                  THEN EmptyOrBeginsWith(sql_answer, <<ErrorMarker>>)
                  ELSE EmptyOrBeginsWith(rag_answer, <<NoInfoSentence, ".">>))

\* C1, amended: the same with the no-information sentence taken without its
\* final period: I couldn't find relevant information in the knowledge base
C1_FallbackIffContract ==
    (pc = "done" /\ HasReturned(PrimaryAgent))
        => (Called(OtherAgent)
              <=> IF PrimaryAgent = "SQL"
                  THEN EmptyOrBeginsWith(sql_answer, <<ErrorMarker>>)
                  ELSE EmptyOrBeginsWith(rag_answer, <<NoInfoSentence>>))

\* C1 witness: the semantic engine, primary, found no passage and answered
\* with its no-information sentence, and the query pipeline was invoked.
C1_Witness ==
    /\ pc = "done"
    /\ PrimaryAgent = "RAG"
    /\ rag_answer = RagNoInfoAnswer
    /\ Called("SQL")

\* The text begins, behind leading white space, with the error marker of the
\* query pipeline or with the one of the semantic engine.
LooksLikeAnError(text) ==
    /\ text # << >>
    /\ \/ EmptyOrBeginsWith(text, <<ErrorMarker>>)
       \/ EmptyOrBeginsWith(text, RagErrorMarker)

\* C2, as stated: whenever the primary engine's answer begins with the error
\* marker, whichever engine was primary, the router invokes the other engine
\* and the final answer is that engine's answer.
C2_ErrorAnswerInvokesOtherEngine ==
    (pc = "done" /\ HasReturned(PrimaryAgent) /\ LooksLikeAnError(AnswerOf(PrimaryAgent)))
        => /\ Called(OtherAgent)
           /\ HasReturned(OtherAgent) => final_answer = AnswerOf(OtherAgent)

\* C9: no exception leaves the router: a request that ends has returned a
\* text, and when the primary engine raised, the text is the error answer of
\* the top-level handler.
C9_NoExceptionEscapes ==
    /\ outcome # "raised"
    /\ pc = "done" =>
           /\ outcome = "returned"
           /\ returned # << >> \/ final_answer = << >>
           /\ (HasRaised(PrimaryAgent) /\ ~HasReturned(PrimaryAgent))
                  => /\ final_answer = OrchestratorErrorAnswer(exc)
                     /\ debug_mode \/ returned = final_answer

\* C9 witness: the primary engine raised and the request ended with the
\* error answer.
C9_Witness ==
    /\ pc = "done"
    /\ HasRaised(PrimaryAgent)
    /\ ~Called(OtherAgent)
    /\ outcome = "returned"
    /\ debug_info.final_agent = "ERROR"

\* C10: within one request each engine is invoked at most once, there is at
\* most one fallback, and the relational store runs at most one statement
\* per invocation of the pipeline.
C10_NothingIsRetried ==
    /\ CallCount("SQL") <= 1
    /\ CallCount("RAG") <= 1
    /\ FallbackCount <= 1
    /\ db_runs <= CallCount("SQL")

\* C10 witness: the query pipeline, invoked as fallback, ran one statement,
\* which failed, and its error answer ended the request.
C10_Witness ==
    /\ pc = "done"
    /\ PrimaryAgent = "RAG"
    /\ CallCount("SQL") = 1
    /\ CallCount("RAG") = 1
    /\ db_runs = 1
    /\ \E e \in ErrorMessages : final_answer = SqlExecutionErrorAnswer(e)

(***************************************************************************)
(* Properties of the engines (specification Spec).                         *)
(***************************************************************************)

\* The positions of events at which the collaborator call ended.
CallsOf(call) == { i \in 1..Len(events) : events[i][1] = call }

\* The positions of events at which the collaborator call raised.
FailuresOf(call) == { i \in CallsOf(call) : events[i][2] \in ErrorMessages }

Contains(text, part) == \E i \in 1..Len(text) : text[i] = part

ExecutionHint == "You might want to check date ranges, hotel names or filters."

\* C11: when the relational store raises on the sanitized statement, the
\* query pipeline returns at once an error answer that contains the store's
\* message and the hint about date ranges, names or filters; no second
\* statement is run and the explain phase is not invoked.
C11_ExecutionFailureAnswer ==
    \A i \in FailuresOf("db.run") :
        /\ i < Len(events) /\ events[i + 1] = <<"return", "SQL">>
        /\ Contains(sql_answer, events[i][2])
        /\ Contains(sql_answer, ExecutionHint)
        /\ _looks_like_sql_error(sql_answer)
        /\ Cardinality(CallsOf("db.run")) = 1
        /\ db_runs = 1
        /\ CallsOf("answer_chain.invoke") = {}

\* C11 witness: the store raised timeout and the request ended.
C11_Witness ==
    /\ pc = "done"
    /\ \E i \in FailuresOf("db.run") : events[i][2] = "timeout"
    /\ sql_answer = SqlExecutionErrorAnswer("timeout")

\* The position in events of the first event ev, 0 when there is none.
IndexOf(ev) ==
    IF \E i \in 1..Len(events) : events[i] = ev
    THEN CHOOSE i \in 1..Len(events) :
             /\ events[i] = ev
             /\ \A j \in 1..(i - 1) : events[j] # ev
    ELSE 0

\* C12: when the semantic index returns no candidate, the retriever returns
\* the empty selection with trace mode no_candidates, the semantic engine
\* returns its no-information sentence without calling the text generator,
\* and the router, if the semantic engine was primary, recognizes the
\* sentence and then invokes the query pipeline as fallback.
C12_NoCandidatesFallsBack ==
    (retr_called /\ retr_args.candidates = << >>)
        => /\ retr_out.docs = << >>
           /\ retr_out.dbg.mode = "no_candidates"
           /\ rag_answer = RagNoInfoAnswer
           /\ IndexOf(<<"return", "RAG">>) = IndexOf(<<"similarity_search", "ok">>) + 1
           /\ CallsOf("chain.invoke") = {}
           /\ (caller = "primary" /\ PrimaryAgent = "RAG")
                  => pc = "rag_returned" /\ _looks_like_rag_no_info(rag_answer)
           /\ (caller = "fallback" /\ PrimaryAgent = "RAG")
                  => /\ debug_info.fallback_used
                     /\ IndexOf(<<"call", "SQL">>) > IndexOf(<<"return", "RAG">>)

\* C12 witness: the semantic engine was primary, the index returned nothing,
\* and the answer of the query pipeline ended the request.
C12_Witness ==
    /\ pc = "done"
    /\ PrimaryAgent = "RAG"
    /\ retr_called /\ retr_args.candidates = << >>
    /\ Called("SQL")
    /\ debug_info.final_agent = "SQL"
    /\ final_answer = sql_answer

(***************************************************************************)
(* Properties of the classification (specification SpecRoute).             *)
(***************************************************************************)

\* c and d are the same letter up to case, or the same character.
SameUpToCase(c, d) == c = d \/ <<c, d>> \in LetterPairs \/ <<d, c>> \in LetterPairs

\* text is word up to case, with white space before and behind it only.
IsWordUpToCaseAndSpace(text, word) ==
    \E k \in 0..Len(text) :
        /\ k + Len(word) <= Len(text)
        /\ \A i \in 1..k : IsSpace(text[i])
        /\ \A j \in 1..Len(word) : SameUpToCase(text[k + j], word[j])
        /\ \A i \in (k + Len(word) + 1)..Len(text) : IsSpace(text[i])

\* C13: the route label is SQL exactly when the classifier returned SQL up
\* to case and surrounding white space; it is RAG in every other case, the
\* classifier raising and an unrecognized label included.
C13_RouteLabelDefaultsToRag ==
    pc = "routed"
        => /\ debug_info.route_label \in {"RAG", "SQL"}
           /\ debug_info.route_label = "SQL"
                  <=> /\ ~router_resp.raised
                      /\ IsWordUpToCaseAndSpace(router_resp.content, <<"S", "Q", "L">>)

\* C13 witness: the classifier answered SQL followed by a period, and the
\* label is RAG.
C13_Witness ==
    /\ pc = "routed"
    /\ router_resp.content = <<"S", "Q", "L", ".">>
    /\ debug_info.route_label = "RAG"

(***************************************************************************)
(* Properties of the router with its engines (specification Spec).         *)
(***************************************************************************)

\* C15: when the fallback engine raises, the router returns the answer of
\* the primary engine unchanged as the final answer (behind the debug block
\* when the debug toggle is on), and the request ends with a returned text.
C15_FallbackRaisesKeepsPrimaryAnswer ==
    (pc = "done" /\ FallbackCount = 1 /\ HasRaised(OtherAgent))
        => /\ outcome = "returned"
           /\ HasReturned(PrimaryAgent)
           /\ final_answer = AnswerOf(PrimaryAgent)
           /\ returned = IF debug_mode
                         THEN DebugBlock(debug_info) \o <<NL, NL>> \o AnswerOf(PrimaryAgent)
                         ELSE AnswerOf(PrimaryAgent)

\* C15 witness: the query pipeline, primary, answered with its execution
\* error, the semantic engine raised as fallback, and the error answer of the
\* pipeline was returned.
C15_Witness ==
    /\ pc = "done"
    /\ PrimaryAgent = "SQL"
    /\ HasRaised("RAG")
    /\ \E e \in ErrorMessages : returned = SqlExecutionErrorAnswer(e)

\* The positions of the fences of text.
FencePositions(text) == { i \in 1..Len(text) : text[i] = Fence }

\* text contains a fenced block: an opening and a closing fence.
HasFencedBlock(text) == Cardinality(FencePositions(text)) >= 2

SetMin(S) == CHOOSE x \in S : \A y \in S : x <= y

\* What stands between the first fence of text and the next one.
BlockBody(text) ==
    LET open  == SetMin(FencePositions(text))
        close == SetMin(FencePositions(text) \ {open})
    IN  SubSeq(text, open + 1, close - 1)

\* The length of the word that body begins with, 0 when it begins with none.
LeadingWordLen(body) ==
    CHOOSE k \in 0..Len(body) :
        /\ \A i \in 1..k : IsWordChar(body[i])
        /\ k < Len(body) => ~IsWordChar(body[k + 1])

\* body without the language tag it begins with.
WithoutLanguageTag(body) == SubSeq(body, LeadingWordLen(body) + 1, Len(body))

\* The text generator has returned in the generate phase.
GenerationReturned == \E i \in CallsOf("sql_chain.invoke") : events[i][2] = "ok"

\* The statement is the trimmed block, with its language tag removed if it
\* has one, when there is a block, and the trimmed text otherwise.
ExtractionAsStated ==
    GenerationReturned
        => LET sql_query == _extract_sql(raw_sql_text)
           IN  IF HasFencedBlock(raw_sql_text)
               THEN sql_query \in { Strip(BlockBody(raw_sql_text)),
                                    Strip(WithoutLanguageTag(BlockBody(raw_sql_text))) }
               ELSE sql_query = Strip(raw_sql_text)

\* An empty statement is answered with the generation-empty error answer
\* and is neither executed nor explained; any other statement is handed on.
EmptyStatementIsNotRun ==
    GenerationReturned
        => IF _extract_sql(raw_sql_text) = << >>
           THEN /\ sql_answer = SqlGenerationEmptyAnswer
                /\ CallsOf("db.run") = {} /\ db_runs = 0
                /\ CallsOf("answer_chain.invoke") = {}
           ELSE san_raw = _extract_sql(raw_sql_text)

\* C16, as stated: in the generate phase the statement is the trimmed
\* content of the fenced block with an optional language tag removed, or the
\* trimmed raw text when there is no block; an empty statement yields the
\* generation-empty error answer, and nothing is executed or explained.
C16_ExtractedStatement ==
    /\ ExtractionAsStated
    /\ EmptyStatementIsNotRun

\* A collaborator called by the query pipeline, or by the semantic engine,
\* has raised.
SqlCollaborators == {"_get_db", "sql_chain.invoke", "db.run", "answer_chain.invoke"}
RagCollaborators == {"_get_vectorstore", "similarity_search", "chain.invoke"}

HasFailed(calls) ==
    \E i \in 1..Len(events) : events[i][1] \in calls /\ events[i][2] # "ok"

\* The text begins with the glyph _looks_like_sql_error tests for.
BeginsWithErrorMarker(text) == text # << >> /\ text[1] = ErrorMarker

\* C17, as stated: every error answer of the query pipeline, of the semantic
\* engine and of the router's top-level handler begins with the same error
\* marker, the one the router's error detector tests for.
C17_ErrorAnswersShareMarker ==
    /\ (HasFailed(SqlCollaborators) \/ sql_answer = SqlGenerationEmptyAnswer)
           => BeginsWithErrorMarker(sql_answer) /\ _looks_like_sql_error(sql_answer)
    /\ HasFailed(RagCollaborators)
           => BeginsWithErrorMarker(rag_answer) /\ _looks_like_sql_error(rag_answer)
    /\ debug_info.final_agent = "ERROR"
           => BeginsWithErrorMarker(final_answer) /\ _looks_like_sql_error(final_answer)

\* The part of C17 that holds: the error answers of the query pipeline and
\* of the router's top-level handler begin with the error marker.
ErrorAnswersOfPipelineAndRouterShareMarker ==
    /\ (HasFailed(SqlCollaborators) \/ sql_answer = SqlGenerationEmptyAnswer)
           => BeginsWithErrorMarker(sql_answer) /\ _looks_like_sql_error(sql_answer)
    /\ debug_info.final_agent = "ERROR"
           => BeginsWithErrorMarker(final_answer) /\ _looks_like_sql_error(final_answer)

\* The call at position i of events raised, and the pipeline returned answer
\* at once.
ReturnedOnFailure(i, answer) ==
    /\ i < Len(events) /\ events[i + 1] = <<"return", "SQL">>
    /\ sql_answer = answer

\* C18: the query pipeline turns each of its failures into a returned text:
\* an empty generated statement, a failed execution, and every other
\* exception of a collaborator (the store connection, the text generator in
\* the generate or in the explain phase); the three kinds of failure have
\* three pairwise distinct messages.
C18_PipelineFailuresAreAnswers ==
    /\ \A i \in FailuresOf("db.run") :
           ReturnedOnFailure(i, SqlExecutionErrorAnswer(events[i][2]))
    /\ \A c \in {"_get_db", "sql_chain.invoke", "answer_chain.invoke"} :
           \A i \in FailuresOf(c) :
               ReturnedOnFailure(i, SqlUnexpectedErrorAnswer(events[i][2]))
    /\ (GenerationReturned /\ _extract_sql(raw_sql_text) = << >>)
           => /\ HasReturned("SQL") /\ ~HasRaised("SQL")
              /\ sql_answer = SqlGenerationEmptyAnswer
    /\ HasFailed(SqlCollaborators)
           => HasReturned("SQL") /\ ~HasRaised("SQL")
    /\ \A e1, e2 \in ErrorMessages :
           /\ SqlGenerationEmptyAnswer # SqlExecutionErrorAnswer(e1)
           /\ SqlGenerationEmptyAnswer # SqlUnexpectedErrorAnswer(e1)
           /\ SqlExecutionErrorAnswer(e1) # SqlUnexpectedErrorAnswer(e2)

\* C18 witness: the text generator raised in the explain phase, behind a
\* statement that ran, and the pipeline returned its unexpected-error answer.
C18_Witness ==
    /\ pc = "done"
    /\ db_runs = 1
    /\ FailuresOf("answer_chain.invoke") # {}
    /\ HasReturned("SQL")
    /\ sql_answer = SqlUnexpectedErrorAnswer("timeout")

\* The engine a final agent names, none for the final agent ERROR.
NamedEngine(final_agent) ==
    CASE final_agent \in {"SQL", "SQL (error)"} -> "SQL"
      [] final_agent \in {"RAG", "RAG (no info)"} -> "RAG"
      [] OTHER -> "none"

\* The label, the primary agent and the fallback flag of the trace.
LabelAndFallbackRecorded ==
    /\ debug_info.route_label \in {"RAG", "SQL"}
    /\ debug_info.primary_agent = debug_info.route_label
    /\ debug_info.fallback_used <=> Called(OtherAgent)

\* C19, as stated: every completed request has a trace whose label is RAG
\* or SQL, whose primary agent is the engine of the label, whose fallback
\* flag is set exactly when the other engine was invoked, and whose final
\* agent names the engine whose answer is returned; without fallback the
\* final agent is the primary agent and the answer is the primary answer.
C19_RouteDecisionAsStated ==
    pc = "done"
        => /\ LabelAndFallbackRecorded
           /\ NamedEngine(debug_info.final_agent) \in {"RAG", "SQL"}
           /\ final_answer = AnswerOf(NamedEngine(debug_info.final_agent))
           /\ ~debug_info.fallback_used
                  => /\ debug_info.final_agent = debug_info.primary_agent
                     /\ final_answer = AnswerOf(PrimaryAgent)

\* C19, amended: the same, except that a request whose primary engine call
\* raised has the final agent ERROR, no fallback and the error answer of the
\* router; the final agent is the other engine when the fallback returned,
\* and SQL (error) or RAG (no info), with the primary answer, when the
\* fallback raised.
C19_RouteDecision ==
    pc = "done"
        => /\ LabelAndFallbackRecorded
           /\ IF HasRaised(PrimaryAgent)
              THEN /\ debug_info.final_agent = "ERROR"
                   /\ ~debug_info.fallback_used
                   /\ final_answer = OrchestratorErrorAnswer(exc)
              ELSE IF ~debug_info.fallback_used
              THEN /\ debug_info.final_agent = debug_info.primary_agent
                   /\ final_answer = AnswerOf(PrimaryAgent)
              ELSE IF HasRaised(OtherAgent)
              THEN /\ debug_info.final_agent =
                          (IF PrimaryAgent = "SQL" THEN "SQL (error)" ELSE "RAG (no info)")
                   /\ final_answer = AnswerOf(PrimaryAgent)
              ELSE /\ debug_info.final_agent = OtherAgent
                   /\ final_answer = AnswerOf(OtherAgent)
           /\ returned = IF debug_mode
                         THEN DebugBlock(debug_info) \o <<NL, NL>> \o final_answer
                         ELSE final_answer

\* C19 witness: a request completed with the answer of the fallback engine.
C19_Witness ==
    /\ pc = "done"
    /\ debug_info.fallback_used
    /\ debug_info.final_agent = OtherAgent
    /\ PrimaryAgent = "SQL"
    /\ final_answer = rag_answer /\ rag_answer # << >>

\* The classifier answered SQL and the generate, execute and explain phases
\* of the query pipeline all succeeded.
AnalyticalPhasesSucceeded ==
    /\ debug_info.route_label = "SQL"
    /\ CallsOf("sql_chain.invoke") # {} /\ FailuresOf("sql_chain.invoke") = {}
    /\ CallsOf("db.run") # {} /\ FailuresOf("db.run") = {}
    /\ CallsOf("answer_chain.invoke") # {} /\ FailuresOf("answer_chain.invoke") = {}

\* What the router does with an explanation it accepts; the returned text is
\* the explanation when exact, and may follow the debug block otherwise.
ExplanationIsTheAnswer(exact) ==
    /\ ~Called("RAG")
    /\ ~debug_info.fallback_used
    /\ pc = "done"
           => /\ debug_info.final_agent = "SQL"
              /\ final_answer = sql_answer
              /\ \/ returned = sql_answer
                 \/ /\ ~exact
                    /\ debug_mode
                    /\ returned = DebugBlock(debug_info) \o <<NL, NL>> \o sql_answer

\* C20, as stated: when the classifier answers SQL and the three phases of
\* the query pipeline succeed with an explanation that is not empty and does
\* not begin with the error marker, the router returns exactly that
\* explanation, never calls the semantic engine, and records no fallback and
\* the final agent SQL.
C20_AnalyticalAnswerAsStated ==
    (/\ AnalyticalPhasesSucceeded
     /\ sql_answer # << >>
     /\ ~StartsWith(sql_answer, <<ErrorMarker>>))
        => ExplanationIsTheAnswer(TRUE)

\* C20, amended: the same for an explanation that does not begin with the
\* error marker once its leading whitespace is removed; the returned text is
\* the explanation, behind the debug block when the debug mode is on.
C20_AnalyticalAnswer ==
    (/\ AnalyticalPhasesSucceeded
     /\ sql_answer # << >>
     /\ ~StartsWith(LStrip(sql_answer), <<ErrorMarker>>))
        => ExplanationIsTheAnswer(FALSE)

\* C20 witness: a request completed with an explanation that holds the error
\* marker behind its first character.
C20_Witness ==
    /\ pc = "done"
    /\ AnalyticalPhasesSucceeded
    /\ sql_answer = <<"a", ErrorMarker>>
    /\ returned = sql_answer

\* The router states the events up to position n stand for, in order: the
\* classifier answered, an engine was called as primary or as fallback, the
\* router returned.
RECURSIVE StatesUpTo(_)
StatesUpTo(n) ==
    IF n = 0 THEN <<"Start">>
    ELSE LET ev == events[n] IN
         IF ev[1] = "classified" THEN Append(StatesUpTo(n - 1), "Classified")
         ELSE IF ev[1] = "call"
         THEN Append(StatesUpTo(n - 1),
                     IF n > 1 /\ events[n - 1][1] = "fallback"
                     THEN "FallbackAttempted" ELSE "PrimaryAttempted")
         ELSE IF ev = <<"done", "router">> THEN Append(StatesUpTo(n - 1), "Done")
         ELSE StatesUpTo(n - 1)

StateSequence == StatesUpTo(Len(events))

IsPrefixOf(s, t) == Len(s) <= Len(t) /\ s = SubSeq(t, 1, Len(s))

SequenceWithoutFallback == <<"Start", "Classified", "PrimaryAttempted", "Done">>

SequenceWithFallback ==
    <<"Start", "Classified", "PrimaryAttempted", "FallbackAttempted", "Done">>

\* The state sequence so far begins one of the two sequences, the sequence
\* of a completed request is one of them, and the engine called as fallback
\* is called behind the return of the primary engine.
StateSequenceIsSequential ==
    /\ \/ IsPrefixOf(StateSequence, SequenceWithoutFallback)
       \/ IsPrefixOf(StateSequence, SequenceWithFallback)
    /\ pc = "done" => StateSequence \in {SequenceWithoutFallback, SequenceWithFallback}
    /\ \A i \in 2..Len(events) :
           events[i - 1][1] = "fallback"
               => /\ events[i] = <<"call", OtherAgent>>
                  /\ \E j \in 1..(i - 1) : events[j] = <<"return", PrimaryAgent>>
    /\ \A i \in 1..Len(events) :
           events[i][1] = "call"
               => \E j \in 1..(i - 1) : events[j][1] = "classified"

\* C23: the state sequence of every request is Start, Classified,
\* PrimaryAttempted, Done, with FallbackAttempted before Done or not: the
\* classifier completes before any engine is called, the fallback engine is
\* called only after the primary engine returned, and when every call of a
\* collaborator returns or raises the request ends in Done.
C23_StateSequence == [](StateSequenceIsSequential) /\ <>(pc = "done")

\* C23 witness: a request completed through the fallback engine.
C23_Witness ==
    /\ pc = "done"
    /\ StateSequence = SequenceWithFallback
    /\ HasReturned(PrimaryAgent)
    /\ Called(OtherAgent)

\* Both engines turn the exception of a collaborator into a returned text:
\* behind every failed call of a collaborator the engine returns.
EnginesConvertExceptions ==
    \A i \in 1..Len(events) :
        (events[i][1] \in SqlCollaborators \cup RagCollaborators /\ events[i][2] # "ok")
            => /\ i < Len(events)
               /\ events[i + 1] = <<"return",
                                    IF events[i][1] \in SqlCollaborators
                                    THEN "SQL" ELSE "RAG">>

\* C28: both engines turn every exception of a collaborator into a returned
\* text, and a request in which no engine call raised ends with the final
\* agent RAG or SQL, never with SQL (error), RAG (no info) or ERROR.
C28_FinalAgentIsAnEngine ==
    /\ EnginesConvertExceptions
    /\ (pc = "done" /\ ~HasRaised("SQL") /\ ~HasRaised("RAG"))
           => debug_info.final_agent \in {"RAG", "SQL"}

\* C28 witness: the semantic engine found nothing, the query pipeline,
\* called as fallback, failed in the relational store, and the request ended
\* with the final agent SQL and the error answer of the pipeline.
C28_Witness ==
    /\ pc = "done"
    /\ PrimaryAgent = "RAG"
    /\ FailuresOf("db.run") # {}
    /\ ~HasRaised("SQL") /\ ~HasRaised("RAG")
    /\ debug_info.final_agent = "SQL"
    /\ _looks_like_sql_error(final_answer)

\* The engines called, in order.
CallsIn(evs) == SelectSeq(evs, LAMBDA ev : ev[1] = "call")

\* C29: the debug toggle does not influence routing: the same question,
\* asked with the toggle on and with it off and given the same responses of
\* the collaborators, calls the same engines in the same order and gets the
\* same final answer; with the toggle off the returned text is the final
\* answer, with it on it is the debug block followed by the final answer.
C29_DebugToggleDoesNotRoute ==
    /\ pc = "done"
           => returned = IF debug_mode
                         THEN DebugBlock(debug_info) \o <<NL, NL>> \o final_answer
                         ELSE final_answer
    /\ (pc = "done" /\ first_run # NoRun)
           => /\ debug_mode # first_run.debug_mode
              /\ CallsIn(events) = CallsIn(first_run.events)
              /\ final_answer = first_run.final_answer
              /\ debug_info = first_run.debug_info

\* C29 witness: both requests fell back from the query pipeline to the
\* semantic engine; the first returned the final answer behind the debug
\* block, the second the final answer alone.
C29_Witness ==
    /\ pc = "done"
    /\ first_run # NoRun
    /\ first_run.debug_mode
    /\ CallsIn(events) = << <<"call", "SQL">>, <<"call", "RAG">> >>
    /\ returned = final_answer
    /\ final_answer # << >>
    /\ first_run.returned # returned

(***************************************************************************)
(* Properties of the memoized handles (specification SpecMemo).            *)
(***************************************************************************)

\* C14, as stated: under any interleaving of the executor threads, every
\* memoized handle is constructed at most once.
C14_HandlesConstructedOnce ==
    \A h \in Handles : memo[h].built <= 1

(***************************************************************************)
(* Properties of the semantic index (specification SpecIndex).             *)
(***************************************************************************)

\* C24: under concurrent requests, no request runs a similarity search
\* before a first-use initialization of the handle (the count of the
\* collection and the indexing of the hotel documents) has finished, and no
\* search runs over a collection that is empty or partly indexed; stated
\* for the runs in which no initialization fails.
C24_NoSearchBeforeInitialised ==
    ~init_failed
        => \A s \in searches : s.initialised /\ s.size >= MaxBatches

\* A thread is inside the first-use initialization.
Initialising(t) == rag_threads[t].pc \in {"count", "load", "add"}

\* C25: when the first-use initialization failed behind the assignment of
\* the handle and none has finished, the handle is not left memoized once no
\* thread is initializing, and no request searches the empty index and
\* answers with the no-information sentence.
C25_FailedInitialisationNotMemoized ==
    /\ (/\ init_failed
        /\ ~initialised
        /\ \A t \in Threads : ~Initialising(t))
           => _vectorstore = None
    /\ \A s \in searches :
           (s.failed /\ ~s.initialised)
               => /\ s.size # 0
                  /\ rag_threads[s.thread].answer # "no_info"

(***************************************************************************)
(* Properties of the WebSocket handler (specification SpecWs).             *)
(***************************************************************************)
ChainRan == ws_pc = "send" \/ ws_result.raised

AgentCalled(a) ==
    \E i \in 1..Len(ws_result.calls) : ws_result.calls[i] = <<"call", a>>

AgentRaised(a) ==
    \E i \in 1..Len(ws_result.calls) : ws_result.calls[i] = <<"raise", a>>

AgentReturned(a) ==
    \E i \in 1..Len(ws_result.calls) : ws_result.calls[i] = <<"return", a>>

\* Agents are tried in the order of priority: an agent of lower priority is
\* called if and only if every available agent of higher priority raised;
\* the first answer an agent returns, error-marked or not, is the response
\* and ends the chain; the generic message is the response only when no
\* agent returned.
ChainAsStated ==
    /\ \A a \in 1..4 : AgentCalled(a) => available[a]
    /\ \A a \in 2..4 :
           available[a]
               => (AgentCalled(a)
                     <=> \A b \in 1..(a - 1) : available[b] => AgentRaised(b))
    /\ \A a \in 1..4 :
           AgentReturned(a)
               => /\ ws_result.response \in {<<a, "answer">>, <<a, "error_answer">>}
                  /\ ws_result.calls[Len(ws_result.calls)] = <<"return", a>>
                  /\ ws_pc = "send"
    /\ ws_result.response = GENERIC_UNAVAILABLE_MESSAGE
           => \A a \in 1..4 : ~AgentReturned(a)

\* C26: for every message, the chain of agents is as stated.
C26_AgentsTriedInPriorityOrder == ChainRan => ChainAsStated

\* The same for the messages whose query is a text.
ChainAsStatedForTextQueries ==
    (ChainRan /\ Sliceable(user_query)) => ChainAsStated

\* C27: every text frame received yields a user query and the connection
\* keeps being served: an object with the key content yields the value of
\* content, every other frame yields the raw frame.
C27_EveryFrameYieldsQuery ==
    raw_data # NoFrame
        => /\ ws_pc # "closed" \/ ws_result.raised
           /\ user_query =
                  IF raw_data.json = "object" /\ raw_data.content # "absent"
                  THEN (IF raw_data.content = "text" THEN "content_text"
                        ELSE "content_number")
                  ELSE "raw_data"

(***************************************************************************)
(* Properties of the hotel metadata loader (specification SpecUpsert).     *)
(***************************************************************************)

\* No later record of the list has the key of record i.
LastOfItsKey(i) ==
    \A k \in (i + 1)..Len(hotel_list) : hotel_list[k].hotelkey # hotel_list[i].hotelkey

\* No later room of the list has the key of room j of record i.
LastOfItsRoomKey(i, j) ==
    /\ \A m \in (j + 1)..Len(hotel_list[i].Rooms) :
           hotel_list[i].Rooms[m].RoomId # hotel_list[i].Rooms[j].RoomId
    /\ \A k \in (i + 1)..Len(hotel_list) :
           hotel_list[k].hotelkey = hotel_list[i].hotelkey
               => \A m \in 1..Len(hotel_list[k].Rooms) :
                      hotel_list[k].Rooms[m].RoomId # hotel_list[i].Rooms[j].RoomId

\* One row per key in both tables.
OneRowPerKey ==
    /\ \A x, y \in hotels_table : x.hotel_key = y.hotel_key => x = y
    /\ \A x, y \in rooms_table :
           (x.hotel_key = y.hotel_key /\ x.room_id = y.room_id) => x = y

\* C30: upsert_hotels_and_rooms is idempotent: after the second call with
\* the same hotel list both tables are as after the first call; each table
\* keeps one row per key, and the row of a key holds the columns of the
\* last record of the list with that key.
C30_UpsertIdempotent ==
    /\ applications >= 2
           => [hotels |-> hotels_table, rooms |-> rooms_table] = after_first
    /\ OneRowPerKey
    /\ (applications >= 1 /\ ~upsert_raised)
           => \A i \in 1..Len(hotel_list) :
                  /\ LastOfItsKey(i) => HotelRow(hotel_list[i]) \in hotels_table
                  /\ \A j \in 1..Len(hotel_list[i].Rooms) :
                         LastOfItsRoomKey(i, j)
                             => RoomRow(hotel_list[i], hotel_list[i].Rooms[j])
                                    \in rooms_table

\* C30 witness: the list names the hotel of an earlier load twice, with
\* different columns and with the same room twice; after two calls the
\* tables hold one row for it and one for its room, and the row of the
\* hotel that is not in the list is still there.
C30_Witness ==
    /\ applications = 2
    /\ ~upsert_raised
    /\ Len(hotel_list) = 2
    /\ hotel_list[1].hotelkey = "h1"
    /\ hotel_list[2].hotelkey = "h1"
    /\ hotel_list[1].Name # hotel_list[2].Name
    /\ Len(hotel_list[2].Rooms) = 2
    /\ Cardinality(hotels_table) = 2
    /\ Cardinality(rooms_table) = 2
    /\ \E x \in hotels_table : x.hotel_key = "h3"

====
